---- MODULE Spec2Model ----
(***************************************************************************)
(* Model of the analytics tool layer of elasticsearch-mcp-server:          *)
(*   - BaseTool.execute (validate -> run -> one search -> fold -> result)  *)
(*     and the error classification of ElasticsearchError                  *)
(*   - find_entities_by_metric (schema, filter, sort, truncation)          *)
(*   - get_platform_breakdown (top-N plus Other folding)                   *)
(*   - top_change (period-over-period bounds, both variants in the tree)   *)
(***************************************************************************)
EXTENDS Integers, Sequences, FiniteSets, TLC

VARIABLES
    \* ---- BaseTool.execute, one invocation ----
    tool,         \* this.toolName
    argsValid,    \* does this.schema.parse(args) succeed
    preFault,     \* what run throws before it reaches client.search
    foldFault,    \* what run throws while folding the response
    pc,           \* position of the invocation inside execute
    runCalls,     \* number of times run was entered
    searchCalls,  \* number of client.search / indices.getMapping calls issued
    thrown,       \* the value caught by execute's catch block
    outcome,      \* how execute ended
    \* ---- find_entities_by_metric ----
    feArgs,       \* the raw argument object
    feBuckets,    \* the buckets the terms aggregation returns
    feOut,        \* the outcome of execute
    \* ---- get_platform_breakdown ----
    pbTopN,       \* args.topN after schema defaults
    pbBuckets,    \* aggs.by_item.buckets
    pbOut,        \* the data part of the response
    \* ---- top_change ----
    tcArgs,       \* startDate / endDate
    tcNow,        \* the clock reading at the first new Date()
    tcOut,        \* the four period bounds
    \* ---- one call of a function or handler that keeps no state of its own ----
    callee,       \* the function called
    callArgs,     \* its arguments
    callResult    \* what it returned or threw

execVars == <<tool, argsValid, preFault, foldFault, pc, runCalls, searchCalls, thrown, outcome>>
feVars   == <<feArgs, feBuckets, feOut>>
pbVars   == <<pbTopN, pbBuckets, pbOut>>
tcVars   == <<tcArgs, tcNow, tcOut>>
callVars == <<callee, callArgs, callResult>>
vars     == <<execVars, feVars, pbVars, tcVars, callVars>>

Absent == "absent"      \* undefined / missing property, where the value is a string

\* an optional or nullable number or array: None when undefined / null
None     == {}
Some(x)  == {x}
IsSome(o) == o # {}
Val(o)   == CHOOSE x \in o : TRUE

Min(a, b) == IF a <= b THEN a ELSE b
Max(a, b) == IF a >= b THEN a ELSE b
Abs(a)    == IF a >= 0 THEN a ELSE -a

RECURSIVE SumSeq(_)
SumSeq(s) == IF s = <<>> THEN 0 ELSE Head(s) + SumSeq(Tail(s))

(***************************************************************************)
(* Error classification: ElasticsearchError.fromResponseError and the      *)
(* catch block of BaseTool.execute                                         *)
(***************************************************************************)

\* substrings fromResponseError looks for in the reason text
Markers == {"circuit_breaking_exception", "data too large", "would be",
            "larger than the limit", "query_shard_exception"}

\* reason texts of a downstream error body: the set of markers each contains
ReasonTexts == { {}, {"circuit_breaking_exception"}, {"data too large"}, {"would be"},
                 {"larger than the limit"}, {"query_shard_exception"},
                 {"data too large", "would be", "larger than the limit"} }

\* body.error.reason: a string (with the markers it contains), missing, or a
\* JSON value that is not a string (number, object)
Reasons == [str : {TRUE}, marks : ReasonTexts] \cup {[str |-> FALSE, marks |-> {}]}

ErrorTypes == {Absent, "circuit_breaking_exception", "query_shard_exception", "other_exception"}

NoBody == [etype |-> Absent, reason |-> [str |-> TRUE, marks |-> {}]]

\* values a run step can throw
ThrownValues ==
    { [kind |-> k, body |-> NoBody] :
        k \in {"ValidationError", "ElasticsearchError", "ZodError", "Error", "Primitive"} }
    \cup { [kind |-> "BodyObject", body |-> [etype |-> t, reason |-> r]] :
             t \in ErrorTypes, r \in Reasons }

\* errorReason.toLowerCase().includes(needle): a TypeError when errorReason
\* is not a string
IncludesLower(reason, needle) ==
    IF reason.str THEN IF needle \in reason.marks THEN "true" ELSE "false"
    ELSE "TypeError"

\* a || b || c over includes() results, left to right with short circuit
RECURSIVE OrChain(_)
OrChain(s) ==
    IF s = <<>> THEN "false"
    ELSE IF Head(s) = "false" THEN OrChain(Tail(s))
    ELSE Head(s)

TypedError(class, errorType, advice) ==
    [class |-> class, errorType |-> errorType, advice |-> advice]

FromResponseError(error) ==
    LET t == error.body.etype
        r == error.body.reason
        dataLimit == OrChain(<< IF t = "circuit_breaking_exception" THEN "true" ELSE "false",
                                IncludesLower(r, "circuit_breaking_exception"),
                                IncludesLower(r, "data too large"),
                                IncludesLower(r, "would be"),
                                IncludesLower(r, "larger than the limit") >>)
        shard == OrChain(<< IF t = "query_shard_exception" THEN "true" ELSE "false",
                            IncludesLower(r, "query_shard_exception") >>)
    IN  IF dataLimit = "TypeError" THEN TypedError("TypeError", Absent, FALSE)
        ELSE IF dataLimit = "true"
        THEN TypedError("ElasticsearchError", "DATA_USAGE_LIMIT_EXCEEDED", TRUE)
        ELSE IF shard = "TypeError" THEN TypedError("TypeError", Absent, FALSE)
        ELSE IF shard = "true"
        THEN TypedError("ElasticsearchError", "QUERY_ERROR", FALSE)
        ELSE TypedError("ElasticsearchError",
                        IF t = Absent THEN "UNKNOWN" ELSE t, FALSE)

\* the catch block of BaseTool.execute: what is rethrown for a caught value
ExecuteCatch(error) ==
    IF error.kind = "ZodError" THEN TypedError("ValidationError", Absent, FALSE)
    ELSE IF error.kind \in {"ValidationError", "ElasticsearchError"}
    THEN TypedError(error.kind, Absent, FALSE)
    ELSE IF error.kind = "BodyObject" THEN FromResponseError(error)
    ELSE TypedError("ElasticsearchError", Absent, FALSE)

(***************************************************************************)
(* BaseTool.execute as a step machine: parse, run up to the search call,   *)
(* the awaited search, the fold of the response                            *)
(***************************************************************************)

\* the tools derived from BaseTool (their toolName)
Tools == {"elastic_get_visit_trends", "find_entities_by_metric", "get-rating-distribution",
          "elastic_period_summary", "elastic_get_usage_leaderboard",
          "get-platform-breakdown", "elastic_top_change"}

\* what run can throw on its own before the search call: a ValidationError
\* (find_entities_by_metric group check), a plain Error (resolveDate,
\* getClient), or nothing
PreFaults == {"none", "ValidationError", "Error"}

\* what the fold of the response can throw: nothing or a plain Error
FoldFaults == {"none", "Error"}

NoThrown  == [kind |-> Absent, body |-> NoBody]
NoOutcome == [class |-> "pending", errorType |-> Absent, advice |-> FALSE]
Returned  == [class |-> "returned", errorType |-> Absent, advice |-> FALSE]

feIdle == [status |-> "idle"]
pbIdle == [status |-> "idle"]
tcIdle == [status |-> "idle"]

FeIdleInit == feArgs = feIdle /\ feBuckets = <<>> /\ feOut = feIdle
PbIdleInit == pbTopN = 0 /\ pbBuckets = <<>> /\ pbOut = pbIdle
TcIdleInit == tcArgs = tcIdle /\ tcNow = 0 /\ tcOut = tcIdle

\* no call made
CallPending == [status |-> "pending"]
CallReturned(value) == [status |-> "returned", value |-> value]
CallThrew(error) == [status |-> "threw", error |-> error]
CallIdleInit == callee = "none" /\ callArgs = <<>> /\ callResult = CallPending

ExecIdleInit ==
    /\ tool = Absent /\ argsValid = FALSE /\ preFault = "none" /\ foldFault = "none"
    /\ pc = "idle" /\ runCalls = 0 /\ searchCalls = 0
    /\ thrown = NoThrown /\ outcome = NoOutcome

ExecInit ==
    /\ tool \in Tools
    /\ argsValid \in BOOLEAN
    /\ preFault \in PreFaults
    /\ foldFault \in FoldFaults
    /\ pc = "parse"
    /\ runCalls = 0
    /\ searchCalls = 0
    /\ thrown = NoThrown
    /\ outcome = NoOutcome
    /\ FeIdleInit /\ PbIdleInit /\ TcIdleInit /\ CallIdleInit

\* the invocation ends in the catch block with the caught value `error`
EndInCatch(error) ==
    /\ thrown' = error
    /\ outcome' = ExecuteCatch(error)
    /\ pc' = "done"

\* a parse whose failure is not acted upon: run is entered with the raw args
ExecParseUnchecked ==
    /\ pc = "parse"
    /\ pc' = "run"
    /\ runCalls' = runCalls + 1
    /\ UNCHANGED <<thrown, outcome>>
    /\ UNCHANGED <<tool, argsValid, preFault, foldFault, searchCalls>>
    /\ UNCHANGED <<feVars, pbVars, tcVars, callVars>>

\* const validatedArgs = this.schema.parse(args)
ExecParse ==
    /\ pc = "parse"
    /\ IF argsValid
       THEN /\ pc' = "run"
            /\ runCalls' = runCalls + 1
            /\ UNCHANGED <<thrown, outcome>>
       ELSE /\ EndInCatch([kind |-> "ZodError", body |-> NoBody])
            /\ UNCHANGED runCalls
    /\ UNCHANGED <<tool, argsValid, preFault, foldFault, searchCalls>>
    /\ UNCHANGED <<feVars, pbVars, tcVars, callVars>>

\* run, from its entry to `await client.search(query)`
RunToSearch ==
    /\ pc = "run"
    /\ IF preFault = "none"
       THEN /\ searchCalls' = searchCalls + 1
            /\ pc' = "await"
            /\ UNCHANGED <<thrown, outcome>>
       ELSE /\ EndInCatch([kind |-> preFault, body |-> NoBody])
            /\ UNCHANGED searchCalls
    /\ UNCHANGED <<tool, argsValid, preFault, foldFault, runCalls>>
    /\ UNCHANGED <<feVars, pbVars, tcVars, callVars>>

\* the awaited search resolves with a response
SearchResolve ==
    /\ pc = "await"
    /\ pc' = "fold"
    /\ UNCHANGED <<tool, argsValid, preFault, foldFault, runCalls, searchCalls, thrown, outcome>>
    /\ UNCHANGED <<feVars, pbVars, tcVars, callVars>>

\* a rejected search that is issued again
SearchRejectRetry ==
    /\ pc = "await"
    /\ pc' = "run"
    /\ UNCHANGED <<thrown, outcome>>
    /\ UNCHANGED <<tool, argsValid, preFault, foldFault, runCalls, searchCalls>>
    /\ UNCHANGED <<feVars, pbVars, tcVars, callVars>>

\* the awaited search rejects: the rejection is thrown into execute's catch
SearchReject ==
    /\ pc = "await"
    /\ \E error \in ThrownValues \ {[kind |-> "ZodError", body |-> NoBody]} :
          EndInCatch(error)
    /\ UNCHANGED <<tool, argsValid, preFault, foldFault, runCalls, searchCalls>>
    /\ UNCHANGED <<feVars, pbVars, tcVars, callVars>>

\* run, from the response to its return value
RunFold ==
    /\ pc = "fold"
    /\ IF foldFault = "none"
       THEN /\ outcome' = Returned
            /\ pc' = "done"
            /\ UNCHANGED thrown
       ELSE EndInCatch([kind |-> foldFault, body |-> NoBody])
    /\ UNCHANGED <<tool, argsValid, preFault, foldFault, runCalls, searchCalls>>
    /\ UNCHANGED <<feVars, pbVars, tcVars, callVars>>

ExecNext == ExecParse \/ RunToSearch \/ SearchResolve \/ SearchReject \/ RunFold

SpecExec == ExecInit /\ [][ExecNext]_vars

(***************************************************************************)
(* Properties of BaseTool.execute                                          *)
(***************************************************************************)

\* C1: execute ends either by returning run's value or by throwing a
\* ValidationError or an ElasticsearchError, whatever run throws.
C1_OnlyTypedErrorsEscape ==
    pc = "done" => outcome.class \in {"returned", "ValidationError", "ElasticsearchError"}

\* C2: when the argument object fails the schema, the invocation ends with a
\* ValidationError and neither run nor the search collaborator is called.
C2_ValidationPrecedesExecution ==
    ~argsValid /\ pc # "idle" =>
        /\ runCalls = 0
        /\ searchCalls = 0
        /\ pc \in {"parse", "done"}
        /\ (pc = "done" => outcome.class = "ValidationError")

C2_Witness ==
    ~argsValid /\ pc = "done" /\ outcome.class = "ValidationError" /\ thrown.kind = "ZodError"

\* C3: an invocation issues at most one search call, only after validation
\* succeeded and before the result is built; a failed call ends the
\* invocation in an error without a second call.
C3_OneSearchNoRetry ==
    /\ [](/\ searchCalls <= 1
          /\ (searchCalls = 1 => argsValid /\ runCalls = 1)
          /\ (outcome.class = "returned" => searchCalls = 1))
    /\ [][ /\ (searchCalls' # searchCalls =>
                 pc = "run" /\ outcome = NoOutcome /\ searchCalls' = searchCalls + 1)
           /\ (pc = "await" /\ pc' # "fold" =>
                 /\ pc' = "done"
                 /\ searchCalls' = searchCalls
                 /\ outcome'.class \notin {"returned", "pending"}) ]_vars

C3_Witness ==
    /\ pc = "done" /\ searchCalls = 1 /\ thrown.kind = "BodyObject"
    /\ outcome.class = "ElasticsearchError"

(***************************************************************************)
(* find_entities_by_metric: schema, run, filter, sort, truncation          *)
(* Numbers are in thousandths: a count of 2 is 2000, a rating 1.004 is     *)
(* 1004.                                                                   *)
(***************************************************************************)

MaxFilters == 2     \* longest `metrics` array drawn
MaxBuckets == 2     \* most buckets in a search response

\* three of the nine metric names of the enum: the groups-only count, a count
\* that both entity types have, and an average
FeMetricNames == {"account_count", "visit_count", "provider_rating"}

\* firstMetric === 'account_count' || 'visit_count' || 'unique_providers' || ...
FeCountMetrics == {"account_count", "visit_count", "unique_providers", "unique_patients",
                   "provider_rating_count", "patient_rating_count"}

\* min / max values drawn for a filter
FeBoundValues == {None, Some(1500)}

\* values a bucket can carry for a sub-aggregation: value_count and
\* cardinality always give an integer, avg gives any number, or null when no
\* document of the bucket has the field
FeValuesOf(metric) ==
    IF metric \in FeCountMetrics THEN {Some(1000), Some(2000)}
    ELSE {None, Some(1004), Some(1996)}

\* Math.round(x) and Math.round(x * 100) / 100, x >= 0 in thousandths
RoundUnits(x)      == ((x + 500) \div 1000) * 1000
RoundHundredths(x) == ((x + 5) \div 10) * 10

SeqsUpTo(S, n) == UNION { [1..k -> S] : k \in 0..n }

FeFilterShapes == [metric : FeMetricNames, min : FeBoundValues, max : FeBoundValues]

\* argument objects: the legacy single-metric form (with or without an empty
\* metrics array), the array form, and both forms together
FeMetricSpecs ==
    [metric : FeMetricNames \cup {Absent}, min : FeBoundValues, max : FeBoundValues,
     metrics : {None, Some(<<>>)}]
    \cup [metric : {Absent}, min : {None}, max : {None},
          metrics : {Some(l) : l \in SeqsUpTo(FeFilterShapes, MaxFilters) \ {<<>>}}]
    \cup [metric : FeMetricNames, min : {Some(1500)}, max : {None},
          metrics : {Some(l) : l \in [1..1 -> FeFilterShapes]}]

FeArgsDomain ==
    { [entityType |-> e, metric |-> m.metric, min |-> m.min, max |-> m.max,
       metrics |-> m.metrics, group |-> g, limit |-> l] :
        e \in {"group", "account"}, m \in FeMetricSpecs, g \in {Absent, "g1"},
        l \in {None, Some(1)} }

\* MetricFilterSchema: the refine of one element of `metrics`
MetricFilterSchemaAccepts(f) == IsSome(f.min) \/ IsSome(f.max)

\* first refine: single metric or a non-empty metrics array, not both
FeRefineEitherForm(data) ==
    LET hasSingleMetric == data.metric # Absent
        hasMetricsArray == IsSome(data.metrics) /\ Len(Val(data.metrics)) > 0
    IN  /\ ~(~hasSingleMetric /\ ~hasMetricsArray)
        /\ ~(hasSingleMetric /\ hasMetricsArray)

\* second refine: the single metric needs min or max
FeRefineSingleBounds(data) ==
    data.metric # Absent => (IsSome(data.min) \/ IsSome(data.max))

\* third refine: metricsToCheck = data.metrics || (data.metric ? [..] : []);
\* an array, even an empty one, is truthy
FeRefineEntityType(data) ==
    LET metricsToCheck ==
            IF IsSome(data.metrics) THEN Val(data.metrics)
            ELSE IF data.metric # Absent THEN << [metric |-> data.metric] >>
            ELSE <<>>
    IN  \A i \in 1..Len(metricsToCheck) :
            ~(data.entityType = "account" /\ metricsToCheck[i].metric = "account_count")

\* FindEntitiesByMetricArgsSchema.parse succeeds
FeSchemaAccepts(args) ==
    /\ (IsSome(args.metrics) =>
            \A i \in 1..Len(Val(args.metrics)) : MetricFilterSchemaAccepts(Val(args.metrics)[i]))
    /\ FeRefineEitherForm(args)
    /\ FeRefineSingleBounds(args)
    /\ FeRefineEntityType(args)

\* the parsed value: limit gets its default
FeParsed(args) == [args EXCEPT !.limit = IF IsSome(args.limit) THEN args.limit ELSE Some(10)]

\* const metricsToCompute = args.metrics || (args.metric ? [{...}] : [])
MetricsToCompute(args) ==
    IF IsSome(args.metrics) THEN Val(args.metrics)
    ELSE IF args.metric # Absent
    THEN << [metric |-> args.metric, min |-> args.min, max |-> args.max] >>
    ELSE <<>>

\* the sub-aggregations of the query: one per computed metric, visit_count always
FeRequestedAggs(args) ==
    {MetricsToCompute(args)[i].metric : i \in 1..Len(MetricsToCompute(args))}
    \cup {"visit_count"}

\* the values one bucket can carry for the requested sub-aggregations
FeBucketVals(args) ==
    { v \in [FeRequestedAggs(args) -> UNION {FeValuesOf(m) : m \in FeRequestedAggs(args)}] :
        \A m \in FeRequestedAggs(args) : v[m] \in FeValuesOf(m) }

\* responses of the search collaborator to that query: buckets with distinct
\* keys, each carrying a value or null for every requested sub-aggregation
FeResponses(args) ==
    UNION { { [i \in 1..n |-> [key |-> i, vals |-> f[i]]] : f \in [1..n -> FeBucketVals(args)] } :
            n \in 0..MaxBuckets }

\* getMetricValueFromBucket: bucket.<agg>?.value ?? null
GetMetricValueFromBucket(bucket, metric) ==
    IF metric \in DOMAIN bucket.vals THEN bucket.vals[metric] ELSE None

\* the first .map of run: the result entry and the raw metric values
FeEntry(bucket, metricsToCompute) ==
    LET value(m) == GetMetricValueFromBucket(bucket, m)
        visitRaw == GetMetricValueFromBucket(bucket, "visit_count")
        visitCount == IF IsSome(visitRaw) THEN Val(visitRaw) ELSE 0
        firstMetric == IF Len(metricsToCompute) > 0 THEN metricsToCompute[1].metric ELSE Absent
        \* if (metricValues.<m> !== null) result.<m> = Math.round(...): the
        \* value of a metric that was not computed is undefined, which is not
        \* null, and rounds to NaN
        field(m) ==
            IF \A i \in 1..Len(metricsToCompute) : metricsToCompute[i].metric # m
            THEN [kind |-> "NaN", v |-> 0]
            ELSE IF ~IsSome(value(m)) THEN [kind |-> "unset", v |-> 0]
            ELSE [kind |-> "number",
                  v |-> IF m \in FeCountMetrics THEN RoundUnits(Val(value(m)))
                        ELSE RoundHundredths(Val(value(m)))]
    IN  [entity |-> bucket.key,
         visit_count |-> RoundUnits(visitCount),
         fields |-> [m \in FeMetricNames \ {"visit_count"} |-> field(m)],
         metric_value |->
            IF firstMetric # Absent /\ IsSome(value(firstMetric))
            THEN IF firstMetric \in FeCountMetrics
                 THEN RoundUnits(Val(value(firstMetric)))
                 ELSE RoundHundredths(Val(value(firstMetric)))
            ELSE visitCount]

\* the predicate of .filter: every computed metric present and within bounds
FePasses(bucket, metricsToCompute) ==
    \A i \in 1..Len(metricsToCompute) :
        LET f == metricsToCompute[i]
            value == GetMetricValueFromBucket(bucket, f.metric)
        IN  /\ IsSome(value)
            /\ ~(IsSome(f.min) /\ Val(value) < Val(f.min))
            /\ ~(IsSome(f.max) /\ Val(value) > Val(f.max))

\* Array.prototype.sort with comparator b - a (descending) or a - b: stable
RECURSIVE InsertByMetricValue(_, _, _)
InsertByMetricValue(sorted, e, descending) ==
    IF sorted = <<>> THEN <<e>>
    ELSE IF (IF descending THEN Head(sorted).metric_value >= e.metric_value
             ELSE Head(sorted).metric_value <= e.metric_value)
    THEN <<Head(sorted)>> \o InsertByMetricValue(Tail(sorted), e, descending)
    ELSE <<e>> \o sorted

RECURSIVE SortByMetricValue(_, _)
SortByMetricValue(s, descending) ==
    IF s = <<>> THEN <<>>
    ELSE InsertByMetricValue(SortByMetricValue(SubSeq(s, 1, Len(s) - 1), descending),
                             s[Len(s)], descending)

\* run after the search resolved: map, filter, sort, slice
FeFold(args, buckets) ==
    LET metricsToCompute == MetricsToCompute(args)
        Keep(b) == FePasses(b, metricsToCompute)
        passing == SelectSeq(buckets, Keep)
        results == [i \in 1..Len(passing) |-> FeEntry(passing[i], metricsToCompute)]
        firstMetric == IF Len(metricsToCompute) > 0 THEN metricsToCompute[1].metric ELSE Absent
        isCountMetric == firstMetric \in FeCountMetrics
        sorted == SortByMetricValue(results, isCountMetric)
        limit == Val(args.limit)
    IN  [status |-> "returned", searchCalls |-> 1,
         filtered |-> [i \in 1..Len(passing) |-> passing[i].key],
         results |-> SubSeq(sorted, 1, Min(limit, Len(sorted)))]

FeFailed(class, calls) ==
    [status |-> class, searchCalls |-> calls, filtered |-> <<>>, results |-> <<>>]

FeInit ==
    /\ feArgs \in FeArgsDomain
    /\ feBuckets = <<>>
    /\ feOut = feIdle
    /\ ExecIdleInit /\ PbIdleInit /\ TcIdleInit /\ CallIdleInit

\* execute ends in schema.parse
FeRejectArgs ==
    /\ feOut = feIdle
    /\ ~FeSchemaAccepts(feArgs)
    /\ feOut' = FeFailed("ValidationError", 0)
    /\ UNCHANGED <<feArgs, feBuckets, execVars, pbVars, tcVars, callVars>>

\* run throws at `if (args.group) { if (args.entityType !== 'account') ...`
FeRejectGroup ==
    /\ feOut = feIdle
    /\ FeSchemaAccepts(feArgs)
    /\ feArgs.group # Absent /\ feArgs.entityType # "account"
    /\ feOut' = FeFailed("ValidationError", 0)
    /\ UNCHANGED <<feArgs, feBuckets, execVars, pbVars, tcVars, callVars>>

\* execute runs to its return: the search resolves with some response
FeReturn ==
    /\ feOut = feIdle
    /\ FeSchemaAccepts(feArgs)
    /\ ~(feArgs.group # Absent /\ feArgs.entityType # "account")
    /\ \E buckets \in FeResponses(feArgs) :
          /\ feBuckets' = buckets
          /\ feOut' = FeFold(FeParsed(feArgs), buckets)
    /\ UNCHANGED <<feArgs, execVars, pbVars, tcVars, callVars>>

FeNext == FeRejectArgs \/ FeRejectGroup \/ FeReturn

SpecFind == FeInit /\ [][FeNext]_vars

(***************************************************************************)
(* Properties of find_entities_by_metric                                   *)
(***************************************************************************)

\* the metric filters the caller supplied: the legacy form and every element
\* of the metrics array
FeSuppliedFilters(args) ==
    (IF args.metric # Absent
     THEN {[metric |-> args.metric, min |-> args.min, max |-> args.max]} ELSE {})
    \cup (IF IsSome(args.metrics)
          THEN {Val(args.metrics)[i] : i \in 1..Len(Val(args.metrics))} ELSE {})

\* the first metric the caller listed
FeFirstListedMetric(args) ==
    IF args.metric # Absent THEN args.metric
    ELSE IF IsSome(args.metrics) /\ Len(Val(args.metrics)) > 0 THEN Val(args.metrics)[1].metric
    ELSE Absent

\* C4: with entityType "account", an argument object that names account_count
\* in `metric` or in an element of `metrics` ends in a ValidationError and no
\* search call is made.
C4_AccountCountRejectedForAccounts ==
    (/\ feOut # feIdle
     /\ feArgs.entityType = "account"
     /\ \E f \in FeSuppliedFilters(feArgs) : f.metric = "account_count")
    => (feOut.status = "ValidationError" /\ feOut.searchCalls = 0)

\* a fetched bucket satisfies a supplied filter: value present and in [min, max]
FeWithin(bucket, f) ==
    /\ f.metric \in DOMAIN bucket.vals
    /\ IsSome(bucket.vals[f.metric])
    /\ (IsSome(f.min) => Val(bucket.vals[f.metric]) >= Val(f.min))
    /\ (IsSome(f.max) => Val(bucket.vals[f.metric]) <= Val(f.max))

\* C5: a fetched entity is in the filtered result iff it satisfies every
\* metric filter the caller supplied.
C5_FilteredIffAllFiltersHold ==
    feOut # feIdle /\ feOut.status = "returned" =>
        \A i \in 1..Len(feBuckets) :
            (\E j \in 1..Len(feOut.filtered) : feOut.filtered[j] = feBuckets[i].key)
            <=> (\A f \in FeSuppliedFilters(feArgs) : FeWithin(feBuckets[i], f))

\* the value a result entry reports for a metric, if it reports a number
FeReported(r, m) ==
    IF m = "visit_count" THEN Some(r.visit_count)
    ELSE IF r.fields[m].kind = "number" THEN Some(r.fields[m].v) ELSE None

\* C6: the results are ordered by the first listed metric (non-increasing for
\* count-like metrics, non-decreasing otherwise) and are the first
\* min(limit, passing) entries of that ordering.
C6_SortedThenTruncated ==
    feOut # feIdle /\ feOut.status = "returned" =>
        LET m == FeFirstListedMetric(feArgs)
            res == feOut.results
            limit == Val(FeParsed(feArgs).limit)
            Before(a, b) == IF m \in FeCountMetrics THEN a >= b ELSE a <= b
        IN  /\ Len(res) = Min(limit, Len(feOut.filtered))
            /\ \A i \in 1..Len(res) :
                  /\ \E j \in 1..Len(feOut.filtered) : feOut.filtered[j] = res[i].entity
                  /\ IsSome(FeReported(res[i], m))
            /\ \A i \in 1..Len(res) : \A j \in 1..Len(res) :
                  i < j => /\ res[i].entity # res[j].entity
                           /\ Before(Val(FeReported(res[i], m)), Val(FeReported(res[j], m)))
            /\ \A i \in 1..Len(res) : \A k \in 1..Len(feBuckets) :
                  LET e == FeEntry(feBuckets[k], MetricsToCompute(FeParsed(feArgs)))
                  IN  (/\ \E j \in 1..Len(feOut.filtered) : feOut.filtered[j] = e.entity
                       /\ \A j \in 1..Len(res) : res[j].entity # e.entity)
                      => /\ IsSome(FeReported(e, m))
                         /\ Before(Val(FeReported(res[i], m)), Val(FeReported(e, m)))

(***************************************************************************)
(* get_platform_breakdown: top-N plus Other folding.  Averages are in      *)
(* thousandths.                                                            *)
(***************************************************************************)

MaxPbBuckets == 4     \* most buckets in a by_item response

\* topN values drawn: below the bucket counts drawn, and above the cap of 50
PbTopNValues == {1, 2, 51}

\* the three averages of a bucket
PbAvgMetrics == {"avg_call_duration", "avg_provider_rating", "avg_patient_rating"}

\* an average with the number of values it was computed from: null exactly
\* when there is no value; a call duration can be 0, a rating cannot
PbAvgPairs(m) ==
    {[avg |-> None, n |-> 0], [avg |-> Some(3000), n |-> 1], [avg |-> Some(4000), n |-> 2]}
    \cup (IF m = "avg_call_duration" THEN {[avg |-> Some(0), n |-> 1]} ELSE {})

\* one bucket of the response: doc_count documents, count_records present or
\* missing, and per average its value and the number of values behind it
\* (for the ratings that number is the bucket's *_rating_count; for the call
\* duration the query asks for no such count)
PbBucketShapes ==
    { [doc_count |-> d, count_records |-> c, avg |-> a] :
        d \in {1, 2},
        c \in {Some(1), Some(2)},
        a \in [PbAvgMetrics -> UNION {PbAvgPairs(m) : m \in PbAvgMetrics}] }

\* the value_count over the time field counts the bucket's documents; an
\* average has at most doc_count values; only the average `focus` varies
PbBucketOk(b, focus) ==
    /\ Val(b.count_records) = b.doc_count
    /\ \A m \in PbAvgMetrics :
          /\ b.avg[m] \in PbAvgPairs(m)
          /\ b.avg[m].n <= b.doc_count
          /\ (m # focus => b.avg[m] = [avg |-> None, n |-> 0])

PbBucketsOf(focus) == {b \in PbBucketShapes : PbBucketOk(b, focus)}

\* responses drawn: bucket lists in which one of the three averages varies
PbResponses ==
    UNION { [1..k -> PbBucketsOf(f)] : k \in 0..MaxPbBuckets, f \in PbAvgMetrics }

AggregationLimitLarge == 100     \* AGGREGATION_LIMITS.LARGE

\* a terms size that is not held below max
CalculateTermsSizeUncapped(requested, multiplier, max) == requested * multiplier

\* calculateTermsSize(requested, multiplier, max)
CalculateTermsSize(requested, multiplier, max) == Min(requested * multiplier, max)

\* x || y for numbers: 0 is falsy
OrElse(x, y) == IF x # 0 THEN x ELSE y

\* (bucket.<agg>)?.value || fallback, for a present or missing number
ValueOr(o, fallback) == IF IsSome(o) THEN OrElse(Val(o), fallback) ELSE fallback

\* (bucket.<avg>)?.value || null: a present 0 becomes null
AvgOrNull(o) == IF IsSome(o) /\ Val(o) # 0 THEN o ELSE None

\* Math.round((p / q) * 100) / 100 for p / q in thousandths, p >= 0, q > 0
RoundQuotientHundredths(p, q) == ((2 * p + 10 * q) \div (20 * q)) * 10

\* const topN = Math.min(args.topN || 10, 50)
PbEffectiveTopN(topN) == Min(OrElse(topN, 10), 50)

\* the values read from one bucket (lines 185-193)
PbRead(b) ==
    [countRecords |-> ValueOr(b.count_records, OrElse(b.doc_count, 0)),
     avgCallDuration |-> AvgOrNull(b.avg["avg_call_duration"].avg),
     providerRatingCount |-> b.avg["avg_provider_rating"].n,
     avgProviderRating |-> AvgOrNull(b.avg["avg_provider_rating"].avg),
     patientRatingCount |-> b.avg["avg_patient_rating"].n,
     avgPatientRating |-> AvgOrNull(b.avg["avg_patient_rating"].avg)]

\* itemMetrics of one bucket
PbItem(b) ==
    LET r == PbRead(b)
        rounded(o) == IF IsSome(o) THEN Some(RoundHundredths(Val(o))) ELSE None
    IN  [count_records |-> r.countRecords,
         avg_call_duration |-> rounded(r.avgCallDuration),
         provider_rating_count |-> r.providerRatingCount,
         avg_provider_rating |-> rounded(r.avgProviderRating),
         patient_rating_count |-> r.patientRatingCount,
         avg_patient_rating |-> rounded(r.avgPatientRating)]

\* the accumulators after the buckets from index `from` on were folded
RECURSIVE PbAccumulate(_, _)
PbAccumulate(buckets, from) ==
    IF from > Len(buckets)
    THEN [records |-> 0, cdSum |-> 0, cdCount |-> 0, prSum |-> 0, prCount |-> 0,
          paSum |-> 0, paCount |-> 0]
    ELSE LET acc == PbAccumulate(buckets, from + 1)
             r == PbRead(buckets[from])
         IN  [records |-> acc.records + r.countRecords,
              cdSum |-> acc.cdSum + (IF IsSome(r.avgCallDuration)
                                      THEN Val(r.avgCallDuration) * r.countRecords ELSE 0),
              cdCount |-> acc.cdCount + (IF IsSome(r.avgCallDuration) THEN r.countRecords ELSE 0),
              prSum |-> acc.prSum + (IF IsSome(r.avgProviderRating)
                                      THEN Val(r.avgProviderRating) * r.providerRatingCount ELSE 0),
              prCount |-> acc.prCount + (IF IsSome(r.avgProviderRating)
                                          THEN r.providerRatingCount ELSE 0),
              paSum |-> acc.paSum + (IF IsSome(r.avgPatientRating)
                                      THEN Val(r.avgPatientRating) * r.patientRatingCount ELSE 0),
              paCount |-> acc.paCount + (IF IsSome(r.avgPatientRating)
                                          THEN r.patientRatingCount ELSE 0)]

\* the loop with the split one bucket late: the bucket at index topN is
\* neither a top item nor folded
PbFoldSplitLate(topNArg, buckets) ==
    LET topN == PbEffectiveTopN(topNArg)
        acc == PbAccumulate(buckets, topN + 2)
    IN  [status |-> "returned",
         top_items |-> [i \in 1..Min(topN, Len(buckets)) |-> PbItem(buckets[i])],
         other_items |->
            IF Len(buckets) > topN
            THEN Some([count_records |-> acc.records,
                       avg_call_duration |-> None,
                       provider_rating_count |-> acc.prCount,
                       avg_provider_rating |-> None,
                       patient_rating_count |-> acc.paCount,
                       avg_patient_rating |-> None])
            ELSE None]

\* run after the search resolved: top_items and other_items
PbFold(topNArg, buckets) ==
    LET topN == PbEffectiveTopN(topNArg)
        acc == PbAccumulate(buckets, topN + 1)
        mean(sum, count) ==
            IF count > 0 THEN Some(RoundQuotientHundredths(sum, count)) ELSE None
    IN  [status |-> "returned",
         top_items |-> [i \in 1..Min(topN, Len(buckets)) |-> PbItem(buckets[i])],
         other_items |->
            IF Len(buckets) > topN
            THEN Some([count_records |-> acc.records,
                       avg_call_duration |-> mean(acc.cdSum, acc.cdCount),
                       provider_rating_count |-> acc.prCount,
                       avg_provider_rating |-> mean(acc.prSum, acc.prCount),
                       patient_rating_count |-> acc.paCount,
                       avg_patient_rating |-> mean(acc.paSum, acc.paCount)])
            ELSE None]

PbInit ==
    /\ pbTopN \in PbTopNValues
    /\ pbBuckets = <<>>
    /\ pbOut = pbIdle
    /\ ExecIdleInit /\ FeIdleInit /\ TcIdleInit /\ CallIdleInit

\* the size of the by_item terms aggregation
PbTermsSize(topNArg) ==
    CalculateTermsSize(OrElse(PbEffectiveTopN(topNArg), 10), 2, AggregationLimitLarge)

\* run from the resolved search, which returns at most `size` buckets, to its
\* return value
PbReturn ==
    /\ pbOut = pbIdle
    /\ \E buckets \in PbResponses :
          /\ Len(buckets) <= PbTermsSize(pbTopN)
          /\ pbBuckets' = buckets
          /\ pbOut' = PbFold(pbTopN, buckets)
    /\ UNCHANGED <<pbTopN, execVars, feVars, tcVars, callVars>>

PbNext == PbReturn

SpecPlatform == PbInit /\ [][PbNext]_vars

\* C7: the counts of top_items plus the count of other_items (0 when null)
\* add up to the counts of all fetched buckets; top_items has
\* min(topN, fetched) entries; other_items is non-null exactly when more
\* than topN buckets were fetched.
C7_TopPlusOtherConservesCounts ==
    pbOut # pbIdle =>
        LET topN == Min(pbTopN, 50)
            fetched == Len(pbBuckets)
        IN  /\ SumSeq([i \in 1..Len(pbOut.top_items) |-> pbOut.top_items[i].count_records])
                 + (IF IsSome(pbOut.other_items) THEN Val(pbOut.other_items).count_records ELSE 0)
               = SumSeq([i \in 1..fetched |-> PbRead(pbBuckets[i]).countRecords])
            /\ Len(pbOut.top_items) = Min(topN, fetched)
            /\ (IsSome(pbOut.other_items) <=> fetched > topN)

C7_Witness ==
    /\ pbOut # pbIdle
    /\ IsSome(pbOut.other_items)
    /\ Len(pbBuckets) = pbTopN + 2
    /\ Val(pbOut.other_items).count_records > 0

\* C8: each average of Other is sum(avg_i * weight_i) / sum(weight_i) over the
\* folded buckets whose average is present (0 included), weight_i being the
\* number of values behind avg_i; null when no folded bucket has a value.
C8_OtherAverageIsWeightedMean ==
    pbOut # pbIdle /\ IsSome(pbOut.other_items) =>
        \A m \in PbAvgMetrics :
            LET folded == {i \in 1..Len(pbBuckets) : i > Min(pbTopN, 50)}
                present == {i \in folded : IsSome(pbBuckets[i].avg[m].avg)}
                S == [i \in 1..Len(pbBuckets) |->
                        IF i \in present
                        THEN Val(pbBuckets[i].avg[m].avg) * pbBuckets[i].avg[m].n ELSE 0]
                W == [i \in 1..Len(pbBuckets) |->
                        IF i \in present THEN pbBuckets[i].avg[m].n ELSE 0]
            IN  Val(pbOut.other_items)[m] =
                    IF SumSeq(W) > 0
                    THEN Some(RoundQuotientHundredths(SumSeq(S), SumSeq(W)))
                    ELSE None

(***************************************************************************)
(* Dates.  An instant is a number of clock ticks since 2000-01-01T00:00,   *)
(* local time taken as UTC.  A date string is a record: "now", date math   *)
(* now[+-]<value><unit>[/<round>] (possibly with text left over), an ISO   *)
(* string, or any other text.                                              *)
(***************************************************************************)

TicksPerDay == 4      \* the clock's resolution: 1000 * 60 * 60 * 24 ms in a day

DateStr(kind, op, value, unit, round, junk, t) ==
    [kind |-> kind, op |-> op, value |-> value, unit |-> unit, round |-> round,
     junk |-> junk, t |-> t]

NowStr == DateStr("now", "none", 0, "none", "none", FALSE, 0)
\* now-<value><unit>
Ago(value, unit) == DateStr("math", "-", value, unit, "none", FALSE, 0)
\* now-<value><unit>/<round>
AgoRounded(value, unit, round) == DateStr("math", "-", value, unit, round, FALSE, 0)
\* date.toISOString() and the ISO strings of a caller
IsoStr(t) == DateStr("iso", "none", 0, "none", "none", FALSE, t)
\* a string that is neither date math nor a date
TextStr == DateStr("text", "none", 0, "none", "none", FALSE, 0)

IsLeapYear(y) == (y % 4 = 0 /\ y % 100 # 0) \/ y % 400 = 0

DaysInMonth(y, m) ==
    IF m = 2 THEN (IF IsLeapYear(y) THEN 29 ELSE 28)
    ELSE IF m \in {4, 6, 9, 11} THEN 30 ELSE 31

\* days from 2000-01-01 to the first of January of year y
DaysBeforeYear(y) ==
    (y - 2000) * 365
    + ((y - 1) \div 4) - ((y - 1) \div 100) + ((y - 1) \div 400) - 484

\* days from the first of January to the first of month m, m in 1..13
DaysBeforeMonth(y, m) ==
    <<0, 31, 59, 90, 120, 151, 181, 212, 243, 273, 304, 334, 365>>[m]
    + (IF m > 2 /\ IsLeapYear(y) THEN 1 ELSE 0)

\* the day number of year / month / date as Date's setters normalise them:
\* a month outside 1..12 carries into the year, a date outside the month
\* carries into the following or preceding months
MakeDay(y, m, d) ==
    LET y2 == y + ((m - 1) \div 12)
        m2 == ((m - 1) % 12) + 1
    IN  DaysBeforeYear(y2) + DaysBeforeMonth(y2, m2) + d - 1

\* getFullYear(), for days within four centuries of 2000
YearOf(day) ==
    IF DaysBeforeYear(2000 + (day \div 365) + 1) <= day THEN 2000 + (day \div 365) + 1
    ELSE IF DaysBeforeYear(2000 + (day \div 365)) <= day THEN 2000 + (day \div 365)
    ELSE 2000 + (day \div 365) - 1
\* getMonth() + 1
MonthOf(day) ==
    CHOOSE m \in 1..12 :
        /\ DaysBeforeMonth(YearOf(day), m) <= day - DaysBeforeYear(YearOf(day))
        /\ day - DaysBeforeYear(YearOf(day)) < DaysBeforeMonth(YearOf(day), m + 1)
\* getDate()
DateOf(day) == day - MakeDay(YearOf(day), MonthOf(day), 1) + 1
\* getDay(): 0 is Sunday; 2000-01-01 was a Saturday
WeekdayOf(day) == (day + 6) % 7

\* resolveDate(dateStr) with new Date() reading t: Some(instant), or None
\* when it throws
ResolveDate(e, t) ==
    IF e.kind = "now" THEN Some(t)
    ELSE IF e.kind = "math"
    THEN LET day0 == t \div TicksPerDay
             tod0 == t % TicksPerDay
             offsetMatch == e.op \in {"+", "-"} /\ e.unit \in {"d", "M", "w", "Y", "y"}
             amount == IF e.op = "-" THEN -e.value ELSE e.value
             day1 == IF ~offsetMatch THEN day0
                     ELSE IF e.unit = "d" THEN day0 + amount
                     ELSE IF e.unit = "w" THEN day0 + amount * 7
                     ELSE IF e.unit = "M"
                     THEN MakeDay(YearOf(day0), MonthOf(day0) + amount, DateOf(day0))
                     ELSE MakeDay(YearOf(day0) + amount, MonthOf(day0), DateOf(day0))
             wd == WeekdayOf(day1)
             day2 == IF e.round \in {"w", "W"}
                     THEN day1 - wd + (IF wd = 0 THEN -6 ELSE 1)
                     ELSE IF e.round = "M" THEN MakeDay(YearOf(day1), MonthOf(day1), 1)
                     ELSE IF e.round \in {"y", "Y"} THEN MakeDay(YearOf(day1), 1, 1)
                     ELSE day1
             tod2 == IF e.round \in {"d", "D", "w", "W", "M", "y", "Y"} THEN 0 ELSE tod0
             leftOver == (e.op # "none" /\ ~offsetMatch) \/ e.junk
         IN  IF leftOver THEN None ELSE Some(day2 * TicksPerDay + tod2)
    ELSE IF e.kind = "iso" THEN Some(e.t)
    ELSE None

\* Math.ceil(a / b) for a >= 0, b > 0
CeilDiv(a, b) == (a + b - 1) \div b

\* parseDateMath(dateStr): resolveDate reads the clock at t, the function
\* itself reads it again `lapse` ticks later
ParseDateMath(e, t, lapse) ==
    IF e.kind = "now" THEN 0
    ELSE LET date == ResolveDate(e, t)
         IN  IF IsSome(date)
             THEN CeilDiv(Abs((t + lapse) - Val(date)), TicksPerDay)
             ELSE IF e.kind = "math" /\ e.op = "-" /\ e.unit \in {"d", "w", "M", "y"}
                  THEN (IF e.unit = "d" THEN e.value
                        ELSE IF e.unit = "w" THEN e.value * 7
                        ELSE IF e.unit = "M" THEN e.value * 30
                        ELSE e.value * 365)
                  ELSE 30

\* dateStr.startsWith('now-')
StartsWithNowMinus(e) == e.kind = "math" /\ e.op = "-"

\* capTimePeriod(startDate, endDate, maxDays, logger)
CapTimePeriod(startDate, endDate, maxDays, t, lapseStart, lapseEnd) ==
    LET startDays == ParseDateMath(startDate, t, lapseStart)
        endDays == ParseDateMath(endDate, t, lapseEnd)
        periodDays == Abs(startDays - endDays)
    IN  IF periodDays > maxDays
        THEN [startDate |-> IF StartsWithNowMinus(startDate) THEN Ago(maxDays, "d")
                            ELSE startDate,
              endDate |-> endDate, wasAdjusted |-> TRUE]
        ELSE [startDate |-> startDate, endDate |-> endDate, wasAdjusted |-> FALSE]

(***************************************************************************)
(* top_change: the current and the previous period.  Two tools are in the  *)
(* tree: TopChangeTool.run of the BaseTool generation (variant "run") and  *)
(* TopChangeTool.execute registered by the server (variant "execute").     *)
(***************************************************************************)

TopChangeMaxDays == 60     \* capTimePeriod(..., 60, ...) in execute

\* how far the clock can advance between two readings
Lapses == {0, 1}

TcNowValues ==
    { MakeDay(2024, 3, 31) * TicksPerDay + 1,
      MakeDay(2024, 7, 15) * TicksPerDay,
      MakeDay(2025, 1, 1) * TicksPerDay + 3 }

TcStartDates ==
    {None} \cup
    { Some(e) : e \in { Ago(7, "d"), Ago(90, "d"), Ago(2, "w"), Ago(1, "M"), Ago(1, "y"),
                        AgoRounded(1, "M", "M"),
                        IsoStr(MakeDay(2024, 3, 1) * TicksPerDay), TextStr } }

TcEndDates ==
    { None, Some(NowStr), Some(Ago(1, "d")), Some(IsoStr(MakeDay(2024, 3, 20) * TicksPerDay)) }

TcArgsDomain ==
    [variant : {"run", "execute"}, startDate : TcStartDates, endDate : TcEndDates]

\* startDate || default
OrDefault(o, default) == IF IsSome(o) THEN Val(o) ELSE default

TcPeriods(currentStart, currentEnd, previousStart, previousEnd) ==
    [status |-> "returned", currentStart |-> currentStart, currentEnd |-> currentEnd,
     previousStart |-> previousStart, previousEnd |-> previousEnd]

TcFailed(error) == [status |-> "failed", error |-> ExecuteCatch(error)]

\* a previous period that stops one tick short of the current start
TcRunPeriodsGap(startInstant, endInstant) ==
    LET durationMs == endInstant - startInstant
        previousEnd == startInstant - 1
        previousStart == previousEnd - durationMs
    IN  TcPeriods(IsoStr(startInstant), IsoStr(endInstant),
                  IsoStr(previousStart), IsoStr(previousEnd))

\* run, from the resolved range to the four ISO strings
TcRunPeriods(startInstant, endInstant) ==
    LET durationMs == endInstant - startInstant
        previousEnd == startInstant
        previousStart == previousEnd - durationMs
    IN  TcPeriods(IsoStr(startInstant), IsoStr(endInstant),
                  IsoStr(previousStart), IsoStr(previousEnd))

\* execute, the capping of the current period; l1, l2 are the clock lapses
\* inside the two parseDateMath calls of capTimePeriod
TcExecuteCapped(args, t, l1, l2) ==
    CapTimePeriod(OrDefault(args.startDate, Ago(30, "d")), OrDefault(args.endDate, NowStr),
                  TopChangeMaxDays, t, l1, l2)

\* execute, from the capped current period to the four date strings; l3, l4
\* are the clock lapses inside its own two parseDateMath calls
TcExecutePeriods(currentPeriodStart, currentPeriodEnd, t, l3, l4) ==
    LET startDays == ParseDateMath(currentPeriodStart, t, l3)
        endDays == ParseDateMath(currentPeriodEnd, t, l4)
        periodDuration == Abs(endDays - startDays)
        previousPeriodStart ==
            IF /\ StartsWithNowMinus(currentPeriodStart)
               /\ currentPeriodStart.unit \in {"d", "w", "M", "y"}
            THEN Ago(currentPeriodStart.value + periodDuration, currentPeriodStart.unit)
            ELSE Ago(startDays + periodDuration, "d")
    IN  TcPeriods(currentPeriodStart, currentPeriodEnd, previousPeriodStart, currentPeriodStart)

\* the range query takes every date string of the request at one clock reading
TcSearchAccepts(periods, t) ==
    \A e \in {periods.currentStart, periods.currentEnd,
              periods.previousStart, periods.previousEnd} : IsSome(ResolveDate(e, t))

TcInit ==
    /\ tcArgs \in TcArgsDomain
    /\ tcNow \in TcNowValues
    /\ tcOut = tcIdle
    /\ ExecIdleInit /\ FeIdleInit /\ PbIdleInit /\ CallIdleInit

\* variant "run": both dates resolve
TcRun ==
    /\ tcOut = tcIdle /\ tcArgs.variant = "run"
    /\ \E lapse \in Lapses :
       \E start \in {ResolveDate(OrDefault(tcArgs.startDate, Ago(1, "w")), tcNow)} :
       \E end \in {ResolveDate(OrDefault(tcArgs.endDate, NowStr), tcNow + lapse)} :
          /\ IsSome(start) /\ IsSome(end)
          /\ tcOut' = TcRunPeriods(Val(start), Val(end))
    /\ UNCHANGED <<tcArgs, tcNow, execVars, feVars, pbVars, callVars>>

\* variant "run": resolveDate throws an Error, which execute's catch wraps
TcRunThrow ==
    /\ tcOut = tcIdle /\ tcArgs.variant = "run"
    /\ \/ ~IsSome(ResolveDate(OrDefault(tcArgs.startDate, Ago(1, "w")), tcNow))
       \/ ~IsSome(ResolveDate(OrDefault(tcArgs.endDate, NowStr), tcNow))
    /\ tcOut' = TcFailed([kind |-> "Error", body |-> NoBody])
    /\ UNCHANGED <<tcArgs, tcNow, execVars, feVars, pbVars, callVars>>

\* variant "execute": the search accepts the date strings
TcExecute ==
    /\ tcOut = tcIdle /\ tcArgs.variant = "execute"
    /\ \E l1 \in Lapses, l2 \in Lapses, l3 \in Lapses, l4 \in Lapses :
       \E capped \in {TcExecuteCapped(tcArgs, tcNow, l1, l2)} :
       \E periods \in {TcExecutePeriods(capped.startDate, capped.endDate, tcNow, l3, l4)} :
          /\ TcSearchAccepts(periods, tcNow)
          /\ tcOut' = periods
    /\ UNCHANGED <<tcArgs, tcNow, execVars, feVars, pbVars, callVars>>

\* variant "execute": the search rejects a date string; the catch wraps it
TcExecuteReject ==
    /\ tcOut = tcIdle /\ tcArgs.variant = "execute"
    /\ \E l1 \in Lapses, l2 \in Lapses, l3 \in Lapses, l4 \in Lapses :
       \E capped \in {TcExecuteCapped(tcArgs, tcNow, l1, l2)} :
       \E periods \in {TcExecutePeriods(capped.startDate, capped.endDate, tcNow, l3, l4)} :
          ~TcSearchAccepts(periods, tcNow)
    /\ tcOut' = TcFailed([kind |-> "Error", body |-> NoBody])
    /\ UNCHANGED <<tcArgs, tcNow, execVars, feVars, pbVars, callVars>>

TcNext == TcRun \/ TcRunThrow \/ TcExecute \/ TcExecuteReject

SpecTopChange == TcInit /\ [][TcNext]_vars

\* the instant a date string of the result denotes at the clock reading tcNow
TcInstant(e) == Val(ResolveDate(e, tcNow))

\* C9: the previous period ends where the current period starts: the two
\* bounds are the same date string, hence the same instant.
C9_PreviousEndIsCurrentStart ==
    tcOut.status = "returned" =>
        /\ tcOut.previousEnd = tcOut.currentStart
        /\ TcInstant(tcOut.previousEnd) = TcInstant(tcOut.currentStart)

C9_Witness ==
    /\ tcOut.status = "returned"
    /\ tcArgs.variant = "run"
    /\ tcArgs.startDate = Some(Ago(2, "w"))
    /\ TcInstant(tcOut.previousStart) < TcInstant(tcOut.previousEnd)

\* C10: the previous period is exactly as long as the current period.
C10_PeriodsHaveEqualLength ==
    tcOut.status = "returned" =>
        TcInstant(tcOut.currentEnd) - TcInstant(tcOut.currentStart)
            = TcInstant(tcOut.previousEnd) - TcInstant(tcOut.previousStart)

(***************************************************************************)
(* top_change: the items of the result, from the buckets of the response.  *)
(* change_percent is in hundredths of a percent.                           *)
(***************************************************************************)

MaxTcBuckets == 2     \* most buckets in a by_account / by_group response

\* bucket keys: a name, the empty string, blanks only
TcKeys == {"acme", "", "  "}

\* doc_count of the current_period / previous_period filter
TcCounts == {0, 1, 3}

\* buckets as the search returns them: visit_delta is the bucket_script
\* current - previous
TcBucketShapes ==
    { [key |-> k, current_period |-> c, previous_period |-> p, visit_delta |-> c - p] :
        k \in TcKeys, c \in TcCounts, p \in TcCounts }

TcResponses == UNION { [1..n -> TcBucketShapes] : n \in 0..MaxTcBuckets }

\* item.trim() === ''
TrimIsEmpty(key) == key \in {"", "  "}

\* parseFloat(((p / q) * 100).toFixed(2)) in hundredths, q > 0: the nearest
\* hundredth of the magnitude, the larger one on a tie, with the sign of p
ToFixed2Percent(p, q) ==
    LET n == (2 * Abs(p) * 10000 + q) \div (2 * q)
    IN  IF p < 0 THEN -n ELSE n

\* a percent change that reports 0 whenever the previous count is 0
ChangePercentZeroWhenNoPrevious(change, currentCount, previousCount) ==
    IF previousCount > 0 THEN ToFixed2Percent(change, previousCount) ELSE 0

\* changePercent, parsed back to a number
ChangePercent(change, currentCount, previousCount) ==
    IF previousCount > 0 THEN ToFixed2Percent(change, previousCount)
    ELSE IF currentCount > 0 THEN 10000 ELSE 0

\* the ChangeInfo of one bucket
TcItem(bucket) ==
    LET currentCount == OrElse(bucket.current_period, 0)
        previousCount == OrElse(bucket.previous_period, 0)
        change == OrElse(bucket.visit_delta, 0)
    IN  [item |-> bucket.key,
         current_period_count |-> currentCount,
         previous_period_count |-> previousCount,
         change |-> change,
         change_percent |-> ChangePercent(change, currentCount, previousCount)]

\* the loop over the buckets: blank keys are skipped
TcItems(buckets) ==
    LET kept == SelectSeq(buckets, LAMBDA b : ~(b.key = "" \/ TrimIsEmpty(b.key)))
    IN  [i \in 1..Len(kept) |-> TcItem(kept[i])]

TcItemsInit ==
    /\ callee = "TopChangeTool.run items"
    /\ callArgs \in TcResponses
    /\ callResult = CallPending
    /\ ExecIdleInit /\ FeIdleInit /\ PbIdleInit /\ TcIdleInit

TcItemsReturn ==
    /\ callee = "TopChangeTool.run items" /\ callResult = CallPending
    /\ callResult' = CallReturned(TcItems(callArgs))
    /\ UNCHANGED <<callee, callArgs, execVars, feVars, pbVars, tcVars>>

TcItemsNext == TcItemsReturn

SpecTopChangeItems == TcItemsInit /\ [][TcItemsNext]_vars

\* the items of a returned top_change result
TcReturnedItems ==
    IF callee = "TopChangeTool.run items" /\ callResult.status = "returned"
    THEN {callResult.value[i] : i \in 1..Len(callResult.value)} ELSE {}

\* C11 as stated: change_percent is exactly (change / previous) * 100 when the
\* previous count is positive, else 100 when the current count is positive
\* and 0 when it is 0.
C11_PercentChangeExact ==
    \A it \in TcReturnedItems :
        IF it.previous_period_count > 0
        THEN it.change_percent * it.previous_period_count = it.change * 10000
        ELSE it.change_percent = (IF it.current_period_count > 0 THEN 10000 ELSE 0)

\* C11: change_percent is (change / previous) * 100 rounded to two decimals
\* when the previous count is positive, else 100 when the current count is
\* positive and 0 when it is 0.
C11_PercentChangeRounded ==
    \A it \in TcReturnedItems :
        IF it.previous_period_count > 0
        THEN 2 * Abs(it.change_percent * it.previous_period_count - it.change * 10000)
                <= it.previous_period_count
        ELSE it.change_percent = (IF it.current_period_count > 0 THEN 10000 ELSE 0)

C11_Witness ==
    /\ \E it \in TcReturnedItems : it.previous_period_count = 3 /\ it.change = -2
    /\ \E it \in TcReturnedItems : it.previous_period_count = 0 /\ it.current_period_count > 0

(***************************************************************************)
(* get_rating_distribution: the ranges of the range aggregation.  Ratings  *)
(* and range bounds are in hundredths.                                     *)
(***************************************************************************)

RatingTypes == {"provider", "patient", "both"}

BucketSizes == 1..5      \* z.number().int().min(1).max(5)

\* rating values of a document, 1.00 to 5.00 in steps of 0.05
RatingValues == {100 + 5 * k : k \in 0..80}

\* the loop over i with the range ends not capped at 5
RECURSIVE RatingLoopUncapped(_, _)
RatingLoopUncapped(i, bucketSize) ==
    IF i <= 5
    THEN <<[from |-> i * 100, to |-> i * 100 + bucketSize * 100 - 10]>>
         \o RatingLoopUncapped(i + bucketSize, bucketSize)
    ELSE <<>>

\* for (let i = 1; i <= 5; i += bucketSize) ranges.push({from: i, to: min(i + bucketSize - 0.1, 5)})
RECURSIVE RatingLoop(_, _)
RatingLoop(i, bucketSize) ==
    IF i <= 5
    THEN <<[from |-> i * 100, to |-> Min(i * 100 + bucketSize * 100 - 10, 500)]>>
         \o RatingLoop(i + bucketSize, bucketSize)
    ELSE <<>>

\* the ranges of one distribution
RatingRanges(bucketSize) == RatingLoop(1, bucketSize) \o <<[from |-> 500, to |-> 510]>>

\* buildRatingAggs(): the ranges per requested distribution
BuildRatingAggs(ratingType, bucketSize) ==
    [provider_distribution |->
        IF ratingType \in {"provider", "both"} THEN Some(RatingRanges(bucketSize)) ELSE None,
     patient_distribution |->
        IF ratingType \in {"patient", "both"} THEN Some(RatingRanges(bucketSize)) ELSE None]

\* the range aggregation: a value is counted in a range when from <= value < to
InRange(value, range) == range.from <= value /\ value < range.to

RatingInit ==
    /\ callee = "buildRatingAggs"
    /\ callArgs \in [ratingType : RatingTypes, bucketSize : BucketSizes, rating : RatingValues]
    /\ callResult = CallPending
    /\ ExecIdleInit /\ FeIdleInit /\ PbIdleInit /\ TcIdleInit

RatingReturn ==
    /\ callee = "buildRatingAggs" /\ callResult = CallPending
    /\ callResult' = CallReturned(BuildRatingAggs(callArgs.ratingType, callArgs.bucketSize))
    /\ UNCHANGED <<callee, callArgs, execVars, feVars, pbVars, tcVars>>

RatingNext == RatingReturn

SpecRatingRanges == RatingInit /\ [][RatingNext]_vars

\* the range lists built by a returned buildRatingAggs call
RatingRangeLists ==
    IF callee = "buildRatingAggs" /\ callResult.status = "returned"
    THEN {Val(l) : l \in {d \in {callResult.value.provider_distribution,
                                 callResult.value.patient_distribution} : IsSome(d)}}
    ELSE {}

\* C12: every rating from 1 to 5 falls in at least one generated range.
C12_RangesLeaveNoGaps ==
    \A ranges \in RatingRangeLists :
        \E i \in 1..Len(ranges) : InRange(callArgs.rating, ranges[i])

\* C13: the rating 5 falls in exactly one generated range, the last one,
\* which starts at 5.
C13_MaximumInExactlyOneRange ==
    \A ranges \in RatingRangeLists :
        callArgs.rating = 500 =>
            /\ {i \in 1..Len(ranges) : InRange(500, ranges[i])} = {Len(ranges)}
            /\ ranges[Len(ranges)].from = 500

C13_Witness ==
    /\ RatingRangeLists # {}
    /\ callArgs.rating = 500
    /\ callArgs.bucketSize = 2
    /\ \E ranges \in RatingRangeLists : Len(ranges) = 4

(***************************************************************************)
(* calculateTermsSize on its own                                           *)
(***************************************************************************)

MaxRequested == 60     \* largest requested size drawn

\* the size limits of AGGREGATION_LIMITS passed as max, and 1
TermsSizeMaxima == {1, 10, 50, AggregationLimitLarge, 200}

TermsSizeArgs ==
    [requested : 1..MaxRequested,
     multiplier : {None} \cup {Some(m) : m \in 1..3},
     max : {None} \cup {Some(x) : x \in TermsSizeMaxima}]

\* the call with its default parameters: multiplier = 2, max = LARGE
CalculateTermsSizeCall(args) ==
    CalculateTermsSize(args.requested, OrDefault(args.multiplier, 2),
                       OrDefault(args.max, AggregationLimitLarge))

TermsSizeInit ==
    /\ callee = "calculateTermsSize"
    /\ callArgs \in TermsSizeArgs
    /\ callResult = CallPending
    /\ ExecIdleInit /\ FeIdleInit /\ PbIdleInit /\ TcIdleInit

TermsSizeReturn ==
    /\ callee = "calculateTermsSize" /\ callResult = CallPending
    /\ callResult' = CallReturned(CalculateTermsSizeCall(callArgs))
    /\ UNCHANGED <<callee, callArgs, execVars, feVars, pbVars, tcVars>>

TermsSizeNext == TermsSizeReturn

SpecTermsSize == TermsSizeInit /\ [][TermsSizeNext]_vars

\* C14: calculateTermsSize returns the smaller of requested * multiplier and
\* max (multiplier 2 and max 100 when omitted), hence never more than max.
C14_TermsSizeIsCappedProduct ==
    callee = "calculateTermsSize" /\ callResult.status = "returned" =>
        LET product == callArgs.requested
                         * (IF IsSome(callArgs.multiplier) THEN Val(callArgs.multiplier) ELSE 2)
            max == IF IsSome(callArgs.max) THEN Val(callArgs.max) ELSE 100
        IN  /\ callResult.value <= max
            /\ callResult.value <= product
            /\ callResult.value \in {product, max}

C14_Witness ==
    /\ callee = "calculateTermsSize" /\ callResult.status = "returned"
    /\ callArgs.requested = 40 /\ callArgs.multiplier = Some(3) /\ callArgs.max = Some(100)
    /\ callResult.value = 100

(***************************************************************************)
(* get_index_fields: the walk over the mapping tree.  Field names, paths   *)
(* and the field filter are sequences of characters.                       *)
(***************************************************************************)

MaxProperties == 2     \* most entries in one properties object

FieldNames == {<<"a">>, <<"B">>}

\* toLowerCase() of one character
LowerChar(c) == IF c = "B" THEN "b" ELSE IF c = "A" THEN "a" ELSE c

\* s.toLowerCase()
ToLowerCase(s) == [i \in 1..Len(s) |-> LowerChar(s[i])]

\* toLowerCase() of a type name
TypeToLowerCase(t) == IF t \in {"Keyword", "KEYWORD"} THEN "keyword" ELSE t

\* haystack.includes(needle)
Includes(haystack, needle) ==
    \E i \in 1..(Len(haystack) + 1) :
        /\ i + Len(needle) - 1 <= Len(haystack)
        /\ SubSeq(haystack, i, i + Len(needle) - 1) = needle

\* the orders in which n distinct field names can be listed
NameOrders(n) ==
    { ns \in [1..n -> FieldNames] : \A i \in 1..n : \A j \in 1..n : i # j => ns[i] # ns[j] }

\* properties objects of up to MaxProperties entries, the entries shaped as in
\* `shapes`, under distinct names in any order
PropertyLists(shapes) ==
    UNION { { [i \in 1..n |-> [name |-> ns[i], type |-> sh[i].type,
                               properties |-> sh[i].properties]] :
                ns \in NameOrders(n), sh \in [1..n -> shapes] } :
            n \in 1..Min(MaxProperties, Cardinality(FieldNames)) }

\* fields without properties: type missing, or one of `types`
GifLeaves(types) == { [type |-> t, properties |-> None] : t \in types }

\* fields with properties: type missing (an object) or "nested"
GifParents ==
    { [type |-> t, properties |-> Some(ps)] :
        t \in {None, Some("nested")},
        ps \in PropertyLists(GifLeaves({None, Some("keyword"), Some("date")})) }

\* mappings.properties of the one index of the response
GifMappings ==
    PropertyLists(GifLeaves({None, Some("keyword"), Some("date"), Some("nested")})
                  \cup GifParents)

GifArgsDomain ==
    [fieldFilter : {None, Some(<<"B">>), Some(<<"a", ".", "b">>)},
     typeFilter : {None, Some("Keyword")},
     includeNested : BOOLEAN,
     mapping : GifMappings]

\* extractFields(properties, fields, prefix, includeNested, fieldFilter,
\* typeFilter): the fields pushed, in the order pushed
RECURSIVE ExtractFields(_, _, _, _, _)
ExtractFields(properties, prefix, includeNested, fieldFilter, typeFilter) ==
    IF properties = <<>> THEN <<>>
    ELSE LET fieldMapping == Head(properties)
             fieldName == fieldMapping.name
             fullPath == IF prefix # <<>> THEN prefix \o <<".">> \o fieldName ELSE fieldName
             fieldType == IF IsSome(fieldMapping.type) THEN Val(fieldMapping.type) ELSE "object"
             nested == IF IsSome(fieldMapping.properties) /\ includeNested
                       THEN ExtractFields(Val(fieldMapping.properties), fullPath,
                                          includeNested, fieldFilter, typeFilter)
                       ELSE <<>>
             rest == ExtractFields(Tail(properties), prefix, includeNested,
                                   fieldFilter, typeFilter)
         IN  IF IsSome(fieldFilter) /\ Val(fieldFilter) # <<>>
                /\ ~Includes(ToLowerCase(fullPath), Val(fieldFilter))
             THEN nested \o rest
             ELSE IF IsSome(typeFilter) /\ Val(typeFilter) # ""
                     /\ TypeToLowerCase(fieldType) # Val(typeFilter)
             THEN nested \o rest
             ELSE (IF fieldType \notin {"object", "nested"}
                   THEN <<[name |-> fieldName, type |-> fieldType, path |-> fullPath]>>
                   ELSE <<>>) \o nested \o rest

\* -1, 0 or 1: the order of two sequences of numbers, a proper prefix first
RECURSIVE LexCompare(_, _)
LexCompare(a, b) ==
    IF a = <<>> THEN (IF b = <<>> THEN 0 ELSE -1)
    ELSE IF b = <<>> THEN 1
    ELSE IF Head(a) < Head(b) THEN -1
    ELSE IF Head(a) > Head(b) THEN 1
    ELSE LexCompare(Tail(a), Tail(b))

\* a.localeCompare(b): the letters without their case decide first ("." before
\* the letters), then lower case goes before upper case
LocaleCompare(a, b) ==
    LET primary(s) == [i \in 1..Len(s) |->
                          IF s[i] = "." THEN 0 ELSE IF LowerChar(s[i]) = "a" THEN 1 ELSE 2]
        tertiary(s) == [i \in 1..Len(s) |-> IF LowerChar(s[i]) = s[i] THEN 0 ELSE 1]
    IN  IF LexCompare(primary(a), primary(b)) # 0 THEN LexCompare(primary(a), primary(b))
        ELSE LexCompare(tertiary(a), tertiary(b))

\* sorted with `field` put after the last entry that does not come after it
RECURSIVE InsertByPath(_, _)
InsertByPath(sorted, field) ==
    IF sorted = <<>> THEN <<field>>
    ELSE IF LocaleCompare(sorted[Len(sorted)].path, field.path) <= 0
    THEN Append(sorted, field)
    ELSE Append(InsertByPath(SubSeq(sorted, 1, Len(sorted) - 1), field), sorted[Len(sorted)])

\* fields.sort((a, b) => a.path.localeCompare(b.path)): a stable sort
RECURSIVE SortByPath(_)
SortByPath(fields) ==
    IF fields = <<>> THEN <<>>
    ELSE InsertByPath(SortByPath(SubSeq(fields, 1, Len(fields) - 1)), fields[Len(fields)])

\* execute after getMapping resolved, with the fields left in the order pushed
GifFieldsUnsorted(args) ==
    ExtractFields(args.mapping, <<>>, args.includeNested,
                  IF IsSome(args.fieldFilter) THEN Some(ToLowerCase(Val(args.fieldFilter)))
                  ELSE None,
                  IF IsSome(args.typeFilter) THEN Some(TypeToLowerCase(Val(args.typeFilter)))
                  ELSE None)

\* execute after getMapping resolved: the fields of the result
GifFields(args) ==
    SortByPath(ExtractFields(args.mapping, <<>>, args.includeNested,
                  IF IsSome(args.fieldFilter) THEN Some(ToLowerCase(Val(args.fieldFilter)))
                  ELSE None,
                  IF IsSome(args.typeFilter) THEN Some(TypeToLowerCase(Val(args.typeFilter)))
                  ELSE None))

GifInit ==
    /\ callee = "GetIndexFieldsTool.execute"
    /\ callArgs \in GifArgsDomain
    /\ callResult = CallPending
    /\ ExecIdleInit /\ FeIdleInit /\ PbIdleInit /\ TcIdleInit

GifReturn ==
    /\ callee = "GetIndexFieldsTool.execute" /\ callResult = CallPending
    /\ \E fields \in {GifFields(callArgs)} :
          callResult' = CallReturned([fields |-> fields, total |-> Len(fields)])
    /\ UNCHANGED <<callee, callArgs, execVars, feVars, pbVars, tcVars>>

GifNext == GifReturn

SpecIndexFields == GifInit /\ [][GifNext]_vars

\* every field of the mapping tree, at either depth, with its dotted path
GifTreeFields(mapping) ==
    { [name |-> mapping[i].name, type |-> mapping[i].type, path |-> mapping[i].name] :
        i \in 1..Len(mapping) }
    \cup UNION { { [name |-> Val(mapping[i].properties)[j].name,
                    type |-> Val(mapping[i].properties)[j].type,
                    path |-> mapping[i].name \o <<".">> \o Val(mapping[i].properties)[j].name] :
                     j \in 1..Len(Val(mapping[i].properties)) } :
                 i \in {k \in 1..Len(mapping) : IsSome(mapping[k].properties)} }

TimeField == "createdtime"
TestVisitField == "test_visit.keyword"
SubscriptionField == "subscription.keyword"
AccountField == "account.keyword"
GroupField == "group.keyword"

RangeClause(field, gte, lt) ==
    [clause |-> "range", field |-> field, gte |-> gte, lt |-> lt, value |-> ""]
TermClause(field, value) ==
    [clause |-> "term", field |-> field, gte |-> "", lt |-> "", value |-> value]

\* options: the dates are any strings; an optional string is undefined, the
\* empty string or a name; excludeTestVisits is undefined or a boolean
CommonFiltersOptions ==
    [startDate : {"now-30d", "2024-03-01T00:00:00.000Z"},
     endDate : {"now", "2024-03-20T00:00:00.000Z"},
     subscription : {None, Some(""), Some("Premium")},
     account : {None, Some(""), Some("acme")},
     group : {None, Some(""), Some("west")},
     excludeTestVisits : {None, Some(TRUE), Some(FALSE)}]

\* if (value): an optional string that is defined and not empty
Truthy(o) == IsSome(o) /\ Val(o) # ""

\* the clause list without the clause on the test-visit field
BuildCommonFiltersKeepTests(options) ==
    <<RangeClause(TimeField, options.startDate, options.endDate)>>
    \o (IF Truthy(options.subscription)
        THEN <<TermClause(SubscriptionField, Val(options.subscription))>> ELSE <<>>)
    \o (IF Truthy(options.account)
        THEN <<TermClause(AccountField, Val(options.account))>> ELSE <<>>)
    \o (IF Truthy(options.group)
        THEN <<TermClause(GroupField, Val(options.group))>> ELSE <<>>)

\* buildCommonFilters(options)
BuildCommonFilters(options) ==
    LET excludeTestVisits == IF IsSome(options.excludeTestVisits)
                             THEN Val(options.excludeTestVisits) ELSE TRUE
    IN  <<RangeClause(TimeField, options.startDate, options.endDate)>>
        \o (IF excludeTestVisits THEN <<TermClause(TestVisitField, "No")>> ELSE <<>>)
        \o (IF Truthy(options.subscription)
            THEN <<TermClause(SubscriptionField, Val(options.subscription))>> ELSE <<>>)
        \o (IF Truthy(options.account)
            THEN <<TermClause(AccountField, Val(options.account))>> ELSE <<>>)
        \o (IF Truthy(options.group)
            THEN <<TermClause(GroupField, Val(options.group))>> ELSE <<>>)

CommonFiltersInit ==
    /\ callee = "buildCommonFilters"
    /\ callArgs \in CommonFiltersOptions
    /\ callResult = CallPending
    /\ ExecIdleInit /\ FeIdleInit /\ PbIdleInit /\ TcIdleInit

CommonFiltersReturn ==
    /\ callee = "buildCommonFilters" /\ callResult = CallPending
    /\ callResult' = CallReturned(BuildCommonFilters(callArgs))
    /\ UNCHANGED <<callee, callArgs, execVars, feVars, pbVars, tcVars>>

CommonFiltersNext == CommonFiltersReturn

SpecCommonFilters == CommonFiltersInit /\ [][CommonFiltersNext]_vars

OffsetUnits == {"d", "D", "w", "W", "M", "y", "Y", "m", "h"}
RoundingUnits == {"none", "d", "D", "w", "W", "M", "y", "Y", "h", ""}
OffsetValues == {1, 5}
RdNowValues == {MakeDay(2024, 2, 29) * TicksPerDay + 1, MakeDay(2025, 12, 31) * TicksPerDay}

\* now, now<offset>, now/<r>, now<offset>/<r>, each with or without further
\* characters behind it
NowStrings ==
    {NowStr}
    \cup {DateStr("math", "none", 0, "none", r, j, 0) :
              r \in RoundingUnits, j \in BOOLEAN}
    \cup {DateStr("math", o, v, u, r, j, 0) :
              o \in {"+", "-"}, v \in OffsetValues, u \in OffsetUnits,
              r \in RoundingUnits, j \in BOOLEAN}

\* "now" followed by nothing is the string "now" itself, and nothing can
\* follow a "/" that ends the string
RdStrings ==
    {e \in NowStrings :
        /\ ~(e.kind = "math" /\ e.op = "none" /\ e.round = "none" /\ ~e.junk)
        /\ ~(e.round = "" /\ e.junk)}

\* the message of the Error thrown by resolveDate
ResolveDateMessage(e) ==
    IF e.kind \in {"now", "math"} THEN "Invalid or unsupported date math format"
    ELSE "Invalid date format"

ResolveDateInit ==
    /\ callee = "resolveDate"
    /\ callArgs \in [dateStr : RdStrings, now : RdNowValues]
    /\ callResult = CallPending
    /\ ExecIdleInit /\ FeIdleInit /\ PbIdleInit /\ TcIdleInit

ResolveDateReturn ==
    /\ callee = "resolveDate" /\ callResult = CallPending
    /\ \E date \in {ResolveDate(callArgs.dateStr, callArgs.now)} :
        /\ IsSome(date)
        /\ callResult' = CallReturned(Val(date))
    /\ UNCHANGED <<callee, callArgs, execVars, feVars, pbVars, tcVars>>

ResolveDateThrow ==
    /\ callee = "resolveDate" /\ callResult = CallPending
    /\ ~IsSome(ResolveDate(callArgs.dateStr, callArgs.now))
    /\ callResult' = CallThrew(ResolveDateMessage(callArgs.dateStr))
    /\ UNCHANGED <<callee, callArgs, execVars, feVars, pbVars, tcVars>>

ResolveDateNext == ResolveDateReturn \/ ResolveDateThrow

SpecResolveDate == ResolveDateInit /\ [][ResolveDateNext]_vars

\* the units of the grammar: d, w, M, y and the upper-case forms of d, w, y
GrammarUnits == {"d", "D", "w", "W", "M", "y", "Y"}

\* now, or now[+|-]<integer><unit>[/<roundingUnit>] with nothing behind it
\* (an expression that has only the rounding part is read as in the grammar)
InGrammar(e) ==
    \/ e.kind = "now"
    \/ /\ e.kind = "math"
       /\ e.op = "none" \/ e.unit \in GrammarUnits
       /\ e.round = "none" \/ e.round \in GrammarUnits
       /\ ~e.junk

\* C17: a string beginning with "now" resolves to an instant when it is in
\* the grammar, and is refused with the invalid-format error when it is not
\* (unsupported offset unit, unsupported or missing rounding unit, trailing
\* characters).
C17_NowGrammarExact ==
    (callee = "resolveDate" /\ callResult # CallPending) =>
        IF InGrammar(callArgs.dateStr)
        THEN callResult.status = "returned"
        ELSE callResult = CallThrew("Invalid or unsupported date math format")

\* ---------------------------------------------------------------------
\* The tools the server dispatches to, and the catch block of each
\* ---------------------------------------------------------------------

\* the names of the switch in the call-tool handler
ServerTools == {"get_index_fields", "top_change", "get_subscription_breakdown",
                "get_platform_breakdown", "get_rating_distribution", "get_visit_trends",
                "get_usage_summary", "find_entities_by_metric"}

\* the catch block around each tool's search call: "base" is BaseTool.execute,
\* "reclassify" a catch of its own that calls fromResponseError, "plain" a
\* catch of its own that only wraps.  A tool whose source holds two versions
\* of the class has both.
CatchStyles(name) ==
    IF name \in {"top_change", "get_usage_summary", "get_index_fields"} THEN {"plain"}
    ELSE IF name = "get_platform_breakdown" THEN {"reclassify"}
    ELSE IF name \in {"get_rating_distribution", "get_visit_trends"} THEN {"plain", "base"}
    ELSE {"base"}

\* catch of TopChangeTool.execute (top-change.ts) and of the tools written
\* like it: a ZodError becomes a ValidationError, a ValidationError passes,
\* everything else is wrapped in a new ElasticsearchError with context {args}
PlainCatch(error) ==
    IF error.kind \in {"ZodError", "ValidationError"}
    THEN TypedError("ValidationError", Absent, FALSE)
    ELSE TypedError("ElasticsearchError", Absent, FALSE)

\* catch of GetPlatformBreakdownTool.execute (get-platform-breakdown.ts)
ReclassifyCatch(error) ==
    IF error.kind \in {"ZodError", "ValidationError"}
    THEN TypedError("ValidationError", Absent, FALSE)
    ELSE IF error.kind = "BodyObject" THEN FromResponseError(error)
    ELSE TypedError("ElasticsearchError", Absent, FALSE)

CatchOf(style, error) ==
    IF style = "base" THEN ExecuteCatch(error)
    ELSE IF style = "reclassify" THEN ReclassifyCatch(error)
    ELSE PlainCatch(error)

\* what the awaited search can reject with
SearchErrors == ThrownValues \ {[kind |-> "ZodError", body |-> NoBody]}

ToolCallInit ==
    /\ callee \in ServerTools
    /\ \E style \in CatchStyles(callee) :
          callArgs \in [catch : {style}, searchError : {None} \cup {Some(e) : e \in SearchErrors}]
    /\ callResult = CallPending
    /\ ExecIdleInit /\ FeIdleInit /\ PbIdleInit /\ TcIdleInit

\* the search resolves and execute returns the tool's result
ToolCallReturn ==
    /\ callee \in ServerTools /\ callResult = CallPending
    /\ ~IsSome(callArgs.searchError)
    /\ callResult' = CallReturned("result")
    /\ UNCHANGED <<callee, callArgs, execVars, feVars, pbVars, tcVars>>

\* the search rejects and the catch block of execute rethrows
ToolCallCatch ==
    /\ callee \in ServerTools /\ callResult = CallPending
    /\ IsSome(callArgs.searchError)
    /\ callResult' = CallThrew(CatchOf(callArgs.catch, Val(callArgs.searchError)))
    /\ UNCHANGED <<callee, callArgs, execVars, feVars, pbVars, tcVars>>

ToolCallNext == ToolCallReturn \/ ToolCallCatch

SpecToolCall == ToolCallInit /\ [][ToolCallNext]_vars

\* a downstream error of type circuit_breaking_exception, or whose reason
\* contains "data too large" or "larger than the limit"
IsResourceExhaustion(error) ==
    /\ error.kind = "BodyObject"
    /\ \/ error.body.etype = "circuit_breaking_exception"
       \/ /\ error.body.reason.str
          /\ error.body.reason.marks \cap {"data too large", "larger than the limit"} # {}

\* C18: in every tool, a search that fails with a resource-exhaustion error
\* surfaces as an ElasticsearchError marked DATA_USAGE_LIMIT_EXCEEDED whose
\* message carries the advice.
C18_ExhaustionReclassifiedEverywhere ==
    (/\ callee \in ServerTools
     /\ callResult.status = "threw"
     /\ IsResourceExhaustion(Val(callArgs.searchError)))
        => callResult.error = TypedError("ElasticsearchError", "DATA_USAGE_LIMIT_EXCEEDED", TRUE)

\* ---------------------------------------------------------------------
\* The call-tool request handler of the server
\* ---------------------------------------------------------------------

\* tool names a request can carry that the switch does not list
UnregisteredNames == {"elastic_top_change", "get_usage_leaderboard", "unknown_tool", ""}
RequestedNames == ServerTools \cup UnregisteredNames

\* how the awaited execute of a tool ends: it returns, or it throws one of
\* the classes that leave a tool's catch block
ToolOutcomes == {"returned", "ValidationError", "ElasticsearchError", "TypeError"}

ErrorResponse(code, statusCode) == [code |-> code, statusCode |-> statusCode]

\* ErrorHandler.handleError(error): the code and status of the response
HandleError(class) ==
    IF class = "ValidationError" THEN ErrorResponse("VALIDATION_ERROR", 400)
    ELSE IF class = "ElasticsearchError" THEN ErrorResponse("ELASTICSEARCH_ERROR", 500)
    ELSE IF class = "NotFoundError" THEN ErrorResponse("NOT_FOUND", 404)
    ELSE IF class \in {"Error", "TypeError"} THEN ErrorResponse("INTERNAL_ERROR", 500)
    ELSE ErrorResponse("UNKNOWN_ERROR", 500)

\* the handler is suspended in `await tool.execute(args)`
CallAwaiting(name) == [status |-> "awaiting", tool |-> name]

\* the handler's return value, with the tools whose execute it called
ToolResponse(isError, error, executed) ==
    CallReturned([isError |-> isError, error |-> error, executed |-> executed])

\* the class constructed by the default branch of the switch
UnknownToolClass == "Error"

CallToolInit ==
    /\ callee = "CallToolRequestSchema handler"
    /\ callArgs \in [name : RequestedNames, arguments : {None, Some("args")},
                     toolOutcome : ToolOutcomes]
    /\ callResult = CallPending
    /\ ExecIdleInit /\ FeIdleInit /\ PbIdleInit /\ TcIdleInit

\* from the request to the switch: a listed name calls the tool's execute; any
\* other name throws in the default branch and the catch builds the response
CallToolDispatch ==
    /\ callee = "CallToolRequestSchema handler" /\ callResult = CallPending
    /\ callResult' = IF callArgs.name \in ServerTools
                     THEN CallAwaiting(callArgs.name)
                     ELSE ToolResponse(TRUE, Some(HandleError(UnknownToolClass)), {})
    /\ UNCHANGED <<callee, callArgs, execVars, feVars, pbVars, tcVars>>

\* execute settles: its result is returned as text, or the catch builds the
\* response of its error
CallToolSettle ==
    /\ callee = "CallToolRequestSchema handler" /\ callResult.status = "awaiting"
    /\ callResult' = IF callArgs.toolOutcome = "returned"
                     THEN ToolResponse(FALSE, None, {callResult.tool})
                     ELSE ToolResponse(TRUE, Some(HandleError(callArgs.toolOutcome)),
                                       {callResult.tool})
    /\ UNCHANGED <<callee, callArgs, execVars, feVars, pbVars, tcVars>>

CallToolNext == CallToolDispatch \/ CallToolSettle

SpecCallTool == CallToolInit /\ [][CallToolNext]_vars

\* C19: a request naming a tool that is not registered ends with an error of
\* code NOT_FOUND and status 404, and no tool's execute is called.
C19_UnknownToolIsNotFound ==
    (/\ callee = "CallToolRequestSchema handler"
     /\ callArgs.name \notin ServerTools
     /\ callResult # CallPending)
        => /\ callResult.status = "returned"
           /\ callResult.value.isError
           /\ callResult.value.error = Some(ErrorResponse("NOT_FOUND", 404))
           /\ callResult.value.executed = {}

\* ---------------------------------------------------------------------
\* The argument schemas of the tools and their parse step
\* ---------------------------------------------------------------------

\* z.object({...keys}) with the keys that have no .optional() / .default(),
\* and whether .strict() follows
ZodObject(keys, required, strict) == [keys |-> keys, required |-> required, strict |-> strict]

GetIndexFieldsArgsSchema ==
    ZodObject({"index", "fieldFilter", "typeFilter", "includeNested"}, {}, TRUE)
TopChangeArgsSchema ==
    ZodObject({"groupBy", "direction", "topN", "startDate", "endDate", "subscription"},
              {"groupBy", "direction"}, TRUE)
PeriodSummaryArgsSchema ==
    ZodObject({"startDate", "endDate"}, {}, TRUE)
GetPlatformBreakdownArgsSchema ==
    ZodObject({"role", "breakdownType", "topN", "startDate", "endDate", "account", "group"},
              {"role", "breakdownType"}, TRUE)
GetRatingDistributionArgsSchema ==
    ZodObject({"ratingType", "bucketSize", "startDate", "endDate", "account", "group",
               "subscription", "groupBy"}, {"ratingType"}, TRUE)
GetVisitTrendsArgsSchema ==
    ZodObject({"interval", "startDate", "endDate", "groupBy", "account", "group",
               "subscription"}, {}, TRUE)
GetUsageSummaryArgsSchema ==
    ZodObject({"startDate", "endDate", "account", "group", "subscription", "groupBy"},
              {}, TRUE)
GetUsageLeaderboardArgsSchema ==
    ZodObject({"entityType", "mode", "limit", "entityValue", "startDate", "endDate",
               "subscription", "orderBy"}, {"entityType", "mode"}, FALSE)
FindEntitiesByMetricArgsSchema ==
    ZodObject({"entityType", "metric", "min", "max", "metrics", "startDate", "endDate",
               "subscription", "group", "limit"}, {"entityType"}, TRUE)

\* the tools of the server by the name their schema is for
ArgsSchemas ==
    [get_index_fields |-> GetIndexFieldsArgsSchema,
     top_change |-> TopChangeArgsSchema,
     get_subscription_breakdown |-> PeriodSummaryArgsSchema,
     get_platform_breakdown |-> GetPlatformBreakdownArgsSchema,
     get_rating_distribution |-> GetRatingDistributionArgsSchema,
     get_visit_trends |-> GetVisitTrendsArgsSchema,
     get_usage_summary |-> GetUsageSummaryArgsSchema,
     get_usage_leaderboard |-> GetUsageLeaderboardArgsSchema,
     find_entities_by_metric |-> FindEntitiesByMetricArgsSchema]

SchemaTools == DOMAIN ArgsSchemas

\* keys a caller may add to an argument object
AddedKeys == {"verbose", "index", "limit"}

\* argument objects for a tool: its required keys, alone or with startDate,
\* with at most one added key; `valuesOk` says whether every value passes
\* the type checks and refinements of its key
ArgObjects(name) ==
    {[keys |-> base \cup added, valuesOk |-> ok] :
        base \in {ArgsSchemas[name].required, ArgsSchemas[name].required \cup {"startDate"}},
        added \in {{}} \cup {{k} : k \in AddedKeys},
        ok \in BOOLEAN}

ZodOk(data) == [ok |-> TRUE, data |-> data]
ZodFail == [ok |-> FALSE, data |-> {}]

\* schema.parse(args): a strict object fails on an unrecognized key, any
\* other object drops it; the parsed data has the declared keys only
ZodParse(schema, args) ==
    IF ~args.valuesOk \/ ~(schema.required \subseteq args.keys) THEN ZodFail
    ELSE IF schema.strict /\ ~(args.keys \subseteq schema.keys) THEN ZodFail
    ELSE ZodOk(args.keys \cap schema.keys)

\* execute has handed the parsed arguments to the tool's body
CallRunning(validatedArgs) == [status |-> "running", validatedArgs |-> validatedArgs]

SchemaInit ==
    /\ callee \in SchemaTools
    /\ callArgs \in ArgObjects(callee)
    /\ callResult = CallPending
    /\ ExecIdleInit /\ FeIdleInit /\ PbIdleInit /\ TcIdleInit

\* execute: the parse succeeds and the body starts with the parsed arguments
SchemaAccept ==
    /\ callee \in SchemaTools /\ callResult = CallPending
    /\ \E parsed \in {ZodParse(ArgsSchemas[callee], callArgs)} :
          /\ parsed.ok
          /\ callResult' = CallRunning(parsed.data)
    /\ UNCHANGED <<callee, callArgs, execVars, feVars, pbVars, tcVars>>

\* execute: the parse throws a ZodError, which the catch turns into a
\* ValidationError
SchemaReject ==
    /\ callee \in SchemaTools /\ callResult = CallPending
    /\ ~ZodParse(ArgsSchemas[callee], callArgs).ok
    /\ callResult' = CallThrew(ExecuteCatch([kind |-> "ZodError", body |-> NoBody]))
    /\ UNCHANGED <<callee, callArgs, execVars, feVars, pbVars, tcVars>>

SchemaNext == SchemaAccept \/ SchemaReject

SpecSchema == SchemaInit /\ [][SchemaNext]_vars

\* C20: for every tool, an argument object that carries a key its schema does
\* not declare ends in a ValidationError; it is never accepted with the key
\* removed.
C20_UnknownKeysRejected ==
    (/\ callee \in SchemaTools
     /\ ~(callArgs.keys \subseteq ArgsSchemas[callee].keys)
     /\ callResult # CallPending)
        => callResult = CallThrew(TypedError("ValidationError", Absent, FALSE))

\* ---------------------------------------------------------------------
\* The advertised input schemas and the runtime schemas, property by property
\* ---------------------------------------------------------------------

\* JSON values of an argument; numbers are held in tenths
NumV(n) == [t |-> "number", n |-> n, s |-> ""]
StrV(s) == [t |-> "string", n |-> 0, s |-> s]
BoolV(b) == [t |-> "boolean", n |-> 0, s |-> IF b THEN "true" ELSE "false"]
\* an array of `len` well-formed elements
ArrV(len) == [t |-> "array", n |-> len, s |-> ""]

\* what a schema says about one property
Prop(type, enum, min, max, int, nonEmpty) ==
    [type |-> type, enum |-> enum, min |-> min, max |-> max, int |-> int,
     nonEmpty |-> nonEmpty]

\* { type: 'string' } and z.string()
AnyString == Prop("string", {}, None, None, FALSE, FALSE)
\* z.string().min(1)
NonEmptyString == Prop("string", {}, None, None, FALSE, TRUE)
\* { type: 'string', enum } and z.enum([...])
EnumOf(values) == Prop("string", values, None, None, FALSE, FALSE)
\* { type: 'number' } and z.number()
AnyNumber == Prop("number", {}, None, None, FALSE, FALSE)
\* { type: 'number', minimum, maximum }
NumberIn(min, max) == Prop("number", {}, Some(min), Some(max), FALSE, FALSE)
\* z.number().int().min(min).max(max)
IntIn(min, max) == Prop("number", {}, Some(min), Some(max), TRUE, FALSE)
\* { type: 'boolean' } and z.boolean()
AnyBoolean == Prop("boolean", {}, None, None, FALSE, FALSE)
\* { type: 'array', items } and z.array(MetricFilterSchema)
ObjectArray == Prop("array", {}, None, None, FALSE, FALSE)

\* the value satisfies the property
PropOk(p, v) ==
    /\ v.t = p.type
    /\ p.enum # {} => v.s \in p.enum
    /\ p.nonEmpty => v.s # ""
    /\ \A m \in p.min : v.n >= m * 10
    /\ \A m \in p.max : v.n <= m * 10
    /\ p.int => v.n % 10 = 0

ObjectSchema(props, required) == [props |-> props, required |-> required]

\* the object has the required keys, no key outside the properties, and a
\* conforming value under every key
ObjectOk(schema, obj) ==
    /\ schema.required \subseteq DOMAIN obj
    /\ DOMAIN obj \subseteq DOMAIN schema.props
    /\ \A k \in DOMAIN obj : PropOk(schema.props[k], obj[k])

SubscriptionTiers == {"Enterprise", "Premium", "FVC", "BVC", "Plus"}
GroupByValues == {"none", "subscription", "account", "group"}
MetricNames == {"account_count", "visit_count", "provider_rating", "patient_rating",
                "avg_call_duration", "unique_providers", "unique_patients",
                "provider_rating_count", "patient_rating_count"}

\* inputSchema of each tool in the answer of the list-tools handler
InputSchemas ==
    [get_index_fields |->
        ObjectSchema([index |-> AnyString, fieldFilter |-> AnyString,
                      typeFilter |-> AnyString, includeNested |-> AnyBoolean], {}),
     top_change |->
        ObjectSchema([groupBy |-> EnumOf({"account", "group"}),
                      direction |-> EnumOf({"increase", "decrease"}),
                      topN |-> NumberIn(1, 50),
                      startDate |-> AnyString, endDate |-> AnyString,
                      subscription |-> EnumOf(SubscriptionTiers)],
                     {"groupBy", "direction"}),
     get_subscription_breakdown |->
        ObjectSchema([startDate |-> AnyString, endDate |-> AnyString], {}),
     get_platform_breakdown |->
        ObjectSchema([role |-> EnumOf({"provider", "patient"}),
                      breakdownType |-> EnumOf({"platform", "version"}),
                      topN |-> NumberIn(1, 100),
                      startDate |-> AnyString, endDate |-> AnyString,
                      account |-> AnyString, group |-> AnyString],
                     {"role", "breakdownType"}),
     get_rating_distribution |->
        ObjectSchema([ratingType |-> EnumOf({"provider", "patient", "both"}),
                      bucketSize |-> NumberIn(1, 5),
                      startDate |-> AnyString, endDate |-> AnyString,
                      account |-> AnyString, group |-> AnyString,
                      subscription |-> EnumOf(SubscriptionTiers),
                      groupBy |-> EnumOf(GroupByValues)],
                     {"ratingType"}),
     get_visit_trends |->
        ObjectSchema([interval |-> EnumOf({"daily", "weekly", "monthly"}),
                      startDate |-> AnyString, endDate |-> AnyString,
                      groupBy |-> EnumOf(GroupByValues),
                      account |-> AnyString, group |-> AnyString,
                      subscription |-> EnumOf(SubscriptionTiers)],
                     {"interval"}),
     get_usage_summary |->
        ObjectSchema([startDate |-> AnyString, endDate |-> AnyString,
                      account |-> AnyString, group |-> AnyString,
                      subscription |-> EnumOf(SubscriptionTiers),
                      groupBy |-> EnumOf(GroupByValues)], {}),
     find_entities_by_metric |->
        ObjectSchema([entityType |-> EnumOf({"group", "account"}),
                      metric |-> EnumOf(MetricNames),
                      min |-> AnyNumber, max |-> AnyNumber,
                      metrics |-> ObjectArray,
                      startDate |-> AnyString, endDate |-> AnyString,
                      subscription |-> EnumOf(SubscriptionTiers),
                      group |-> AnyString,
                      limit |-> NumberIn(1, 500)],
                     {"entityType"})]

\* the source holds two versions of GetVisitTrendsArgsSchema
SchemaVersions(name) ==
    IF name = "get_visit_trends" THEN {"current", "older"} ELSE {"current"}

\* properties of GetVisitTrendsArgsSchema in its two versions
VisitTrendsShape(version) ==
    IF version = "older"
    THEN ObjectSchema([interval |-> EnumOf({"daily", "weekly", "monthly"}),
                       startDate |-> AnyString, endDate |-> AnyString,
                       groupBy |-> EnumOf(GroupByValues),
                       account |-> AnyString, group |-> AnyString,
                       subscription |-> EnumOf(SubscriptionTiers)],
                      {"interval"})
    ELSE ObjectSchema([interval |-> EnumOf({"daily", "weekly", "monthly", "yearly"}),
                       startDate |-> AnyString, endDate |-> AnyString,
                       groupBy |-> EnumOf(GroupByValues),
                       account |-> AnyString, group |-> AnyString,
                       subscription |-> EnumOf(SubscriptionTiers)],
                      {})

\* the z.object shape of each tool's runtime schema: a key is required when
\* it has neither .optional() nor .default()
ZodShapes(version) ==
    [get_index_fields |->
        ObjectSchema([index |-> NonEmptyString, fieldFilter |-> AnyString,
                      typeFilter |-> AnyString, includeNested |-> AnyBoolean], {}),
     top_change |->
        ObjectSchema([groupBy |-> EnumOf({"account", "group"}),
                      direction |-> EnumOf({"increase", "decrease"}),
                      topN |-> IntIn(1, 50),
                      startDate |-> AnyString, endDate |-> AnyString,
                      subscription |-> EnumOf(SubscriptionTiers)],
                     {"groupBy", "direction"}),
     get_subscription_breakdown |->
        ObjectSchema([startDate |-> AnyString, endDate |-> AnyString], {}),
     get_platform_breakdown |->
        ObjectSchema([role |-> EnumOf({"provider", "patient"}),
                      breakdownType |-> EnumOf({"platform", "version"}),
                      topN |-> IntIn(1, 100),
                      startDate |-> AnyString, endDate |-> AnyString,
                      account |-> AnyString, group |-> AnyString],
                     {"role", "breakdownType"}),
     get_rating_distribution |->
        ObjectSchema([ratingType |-> EnumOf({"provider", "patient", "both"}),
                      bucketSize |-> IntIn(1, 5),
                      startDate |-> AnyString, endDate |-> AnyString,
                      account |-> AnyString, group |-> AnyString,
                      subscription |-> EnumOf(SubscriptionTiers),
                      groupBy |-> EnumOf(GroupByValues)],
                     {"ratingType"}),
     get_visit_trends |-> VisitTrendsShape(version),
     get_usage_summary |->
        ObjectSchema([startDate |-> AnyString, endDate |-> AnyString,
                      account |-> AnyString, group |-> AnyString,
                      subscription |-> AnyString,
                      groupBy |-> EnumOf(GroupByValues)], {}),
     find_entities_by_metric |->
        ObjectSchema([entityType |-> EnumOf({"group", "account"}),
                      metric |-> EnumOf(MetricNames),
                      min |-> AnyNumber, max |-> AnyNumber,
                      metrics |-> ObjectArray,
                      startDate |-> AnyString, endDate |-> AnyString,
                      subscription |-> EnumOf(SubscriptionTiers),
                      group |-> AnyString,
                      limit |-> IntIn(1, 500)],
                     {"entityType"})]

\* the .refine() chain of FindEntitiesByMetricArgsSchema; the names inside a
\* metrics array are taken to suit the entity type
FindEntitiesRefine(obj) ==
    LET hasSingleMetric == "metric" \in DOMAIN obj
        hasMetricsArray == "metrics" \in DOMAIN obj /\ obj["metrics"].n > 0
    IN  /\ hasSingleMetric # hasMetricsArray
        /\ hasSingleMetric => ("min" \in DOMAIN obj \/ "max" \in DOMAIN obj)
        /\ ~(hasSingleMetric /\ obj["entityType"].s = "account"
                             /\ obj["metric"].s = "account_count")

\* schema.parse(args) succeeds
RuntimeAccepts(name, version, obj) ==
    /\ ObjectOk(ZodShapes(version)[name], obj)
    /\ name = "find_entities_by_metric" => FindEntitiesRefine(obj)

\* the value a numeric argument has where the tool uses it:
\* Math.min(topN || 10, 50) in the platform breakdown, the parsed value in
\* the other tools
EffectiveNumber(name, key, n) ==
    IF name = "get_platform_breakdown" /\ key = "topN" THEN Min(n, 50 * 10) ELSE n

\* a well-formed argument object of each tool
BaseObject(name) ==
    IF name = "top_change"
    THEN [groupBy |-> StrV("account"), direction |-> StrV("increase")]
    ELSE IF name = "get_platform_breakdown"
    THEN [role |-> StrV("provider"), breakdownType |-> StrV("platform")]
    ELSE IF name = "get_rating_distribution" THEN [ratingType |-> StrV("both")]
    ELSE IF name = "get_visit_trends" THEN [interval |-> StrV("daily")]
    ELSE IF name = "find_entities_by_metric"
    THEN [entityType |-> StrV("group"), metric |-> StrV("visit_count"), min |-> NumV(10)]
    ELSE [k \in {} |-> StrV("")]

WithKey(obj, key, value) ==
    [k \in DOMAIN obj \cup {key} |-> IF k = key THEN value ELSE obj[k]]

WithoutKey(obj, key) == [k \in DOMAIN obj \ {key} |-> obj[k]]

\* values tried under a key
TestNumbers == {0, 10, 25, 50, 500, 510, 1000, 1010, 5000, 5010}
TestStrings == {"", "other", "yearly", "weekly", "Enterprise", "account", "group",
                "patient", "version", "decrease", "none", "provider", "account_count",
                "now-30d"}
TestValues ==
    {NumV(n) : n \in TestNumbers} \cup {StrV(s) : s \in TestStrings}
    \cup {BoolV(b) : b \in BOOLEAN} \cup {ArrV(0), ArrV(1)}

\* the base object, the base object with one key set or added, and the base
\* object with one key removed
TestObjects(name) ==
    LET base == BaseObject(name)
    IN  {base}
        \cup {WithKey(base, k, v) :
                 k \in DOMAIN InputSchemas[name].props \cup {"verbose"}, v \in TestValues}
        \cup {WithoutKey(base, k) : k \in DOMAIN base}

ValidateInit ==
    /\ callee = "schema.parse"
    /\ \E name \in ServerTools :
          callArgs \in [tool : {name}, version : SchemaVersions(name),
                        object : TestObjects(name)]
    /\ callResult = CallPending
    /\ ExecIdleInit /\ FeIdleInit /\ PbIdleInit /\ TcIdleInit

\* the numeric arguments of a parsed object as the tool uses them
EffectiveNumbers(name, obj) ==
    [k \in {x \in DOMAIN obj : obj[x].t = "number"} |-> EffectiveNumber(name, k, obj[k].n)]

\* the parse succeeds and the tool's body runs with the arguments
ValidateAccept ==
    /\ callee = "schema.parse" /\ callResult = CallPending
    /\ RuntimeAccepts(callArgs.tool, callArgs.version, callArgs.object)
    /\ callResult' = CallRunning(EffectiveNumbers(callArgs.tool, callArgs.object))
    /\ UNCHANGED <<callee, callArgs, execVars, feVars, pbVars, tcVars>>

\* the parse throws a ZodError and execute rethrows a ValidationError
ValidateReject ==
    /\ callee = "schema.parse" /\ callResult = CallPending
    /\ ~RuntimeAccepts(callArgs.tool, callArgs.version, callArgs.object)
    /\ callResult' = CallThrew(ExecuteCatch([kind |-> "ZodError", body |-> NoBody]))
    /\ UNCHANGED <<callee, callArgs, execVars, feVars, pbVars, tcVars>>

ValidateNext == ValidateAccept \/ ValidateReject

SpecValidate == ValidateInit /\ [][ValidateNext]_vars

\* C21: an argument object conforms to the advertised inputSchema exactly
\* when the runtime schema accepts it, and every numeric argument of an
\* accepted object is used with the value that was accepted.
C21_AdvertisedMatchesRuntime ==
    (callee = "schema.parse" /\ callResult # CallPending) =>
        /\ ObjectOk(InputSchemas[callArgs.tool], callArgs.object)
              <=> callResult.status = "running"
        /\ callResult.status = "running" =>
              \A k \in DOMAIN callResult.validatedArgs :
                  callResult.validatedArgs[k] = callArgs.object[k].n

\* ---------------------------------------------------------------------
\* The value each tool returns on success
\* ---------------------------------------------------------------------

VisualizationTypes == {"line", "bar", "pie", "table", "metric", "json"}

\* toolName passed to super() by the tools derived from BaseTool
ToolNameOf(name) ==
    IF name = "get_subscription_breakdown" THEN "elastic_period_summary"
    ELSE IF name = "get_rating_distribution" THEN "get-rating-distribution"
    ELSE IF name = "get_visit_trends" THEN "elastic_get_visit_trends"
    ELSE name

\* visualization passed to buildResponse by each of them
VisualizationOf(name) ==
    IF name = "get_subscription_breakdown"
    THEN [type |-> "table", title |-> "Subscription Breakdown"]
    ELSE IF name = "get_rating_distribution"
    THEN [type |-> "bar", title |-> "Rating Distribution"]
    ELSE IF name = "get_visit_trends"
    THEN [type |-> "line", title |-> "Visit Trends"]
    ELSE [type |-> "table", title |-> "Entities by Metric"]

\* a returned value: its own keys, and its meta member when it has one
ToolResult(keys, meta) == [keys |-> keys, meta |-> meta]

\* BaseTool.buildResponse(data, meta)
BuildResponse(toolName, description, time, visualization) ==
    ToolResult({"data", "meta"},
               Some([tool |-> toolName,
                     description |-> IF IsSome(description) /\ Val(description) # ""
                                     THEN Val(description)
                                     ELSE "Results from tool",
                     time |-> IF IsSome(time) THEN Val(time)
                              ELSE [start |-> "", end |-> ""],
                     visualization |-> visualization]))

\* the object literal returned by a tool with an execute of its own
OwnResult(name) ==
    IF name = "get_index_fields" THEN ToolResult({"index", "fields", "total"}, None)
    ELSE IF name = "top_change"
    THEN ToolResult({"currentPeriodStart", "currentPeriodEnd", "previousPeriodStart",
                     "previousPeriodEnd", "groupBy", "direction", "items", "total"}, None)
    ELSE IF name = "get_platform_breakdown"
    THEN ToolResult({"startDate", "endDate", "role", "breakdownType", "top_items",
                     "other_items"}, None)
    ELSE IF name = "get_rating_distribution"
    THEN ToolResult({"startDate", "endDate", "ratingType", "period", "groupBy",
                     "distribution"}, None)
    ELSE IF name = "get_visit_trends"
    THEN ToolResult({"interval", "period", "startDate", "endDate", "trends",
                     "total_visits", "average_per_period"}, None)
    ELSE ToolResult({"period", "startDate", "endDate", "groupBy", "summary"}, None)

\* ISO strings of the resolved period
IsoStarts == {"2024-01-01T00:00:00.000Z", "2024-02-29T06:00:00.000Z",
              "2024-06-30T12:00:00.000Z", "2024-12-01T18:00:00.000Z"}
IsoEnds == {"2024-12-31T00:00:00.000Z", "2025-01-01T06:00:00.000Z",
            "2025-06-30T12:00:00.000Z", "2025-12-31T18:00:00.000Z"}

ResultInit ==
    /\ callee = "tool.execute"
    /\ \E name \in ServerTools :
          callArgs \in [tool : {name}, style : CatchStyles(name),
                        startIso : IsoStarts, endIso : IsoEnds]
    /\ callResult = CallPending
    /\ ExecIdleInit /\ FeIdleInit /\ PbIdleInit /\ TcIdleInit

\* run of a tool derived from BaseTool ends in buildResponse
ResultFromBuildResponse ==
    /\ callee = "tool.execute" /\ callResult = CallPending
    /\ callArgs.style = "base"
    /\ callResult' = CallReturned(
           BuildResponse(ToolNameOf(callArgs.tool), Some("description"),
                         Some([start |-> callArgs.startIso, end |-> callArgs.endIso]),
                         VisualizationOf(callArgs.tool)))
    /\ UNCHANGED <<callee, callArgs, execVars, feVars, pbVars, tcVars>>

\* execute of a tool that is not derived from BaseTool returns its literal
ResultFromOwnExecute ==
    /\ callee = "tool.execute" /\ callResult = CallPending
    /\ callArgs.style # "base"
    /\ callResult' = CallReturned(OwnResult(callArgs.tool))
    /\ UNCHANGED <<callee, callArgs, execVars, feVars, pbVars, tcVars>>

ResultNext == ResultFromBuildResponse \/ ResultFromOwnExecute

SpecResult == ResultInit /\ [][ResultNext]_vars

\* C22: every value returned by a tool of the call-tool handler is {data,
\* meta}, with meta.tool the invoked name, a non-empty description, a time
\* with start and end, and a visualization with a known type and a title.
C22_ResultIsEnvelope ==
    (callee = "tool.execute" /\ callResult.status = "returned") =>
        /\ callResult.value.keys = {"data", "meta"}
        /\ IsSome(callResult.value.meta)
        /\ \A meta \in callResult.value.meta :
              /\ meta.tool = callArgs.tool
              /\ meta.description # ""
              /\ {"start", "end"} \subseteq DOMAIN meta.time
              /\ meta.visualization.type \in VisualizationTypes
              /\ meta.visualization.title # ""

\* ---------------------------------------------------------------------
\* Folding a response whose aggregations are missing, empty or partial
\* ---------------------------------------------------------------------

MaxPartialBuckets == 2

\* the sub-aggregations followed here: one count read by the visit trends and
\* the leaderboard, the count find_entities filters on, one average
PartialAggs == {"unique_accounts", "visit_count", "avg_patient_rating"}

\* a sub-aggregation of a bucket is missing, or carries null or a number
PartialBucketVals ==
    UNION { [present -> {None, Some(3)}] : present \in SUBSET PartialAggs }

PartialBuckets(n) ==
    { [i \in 1..n |-> [key |-> i, doc_count |-> 2, vals |-> f[i]]] :
        f \in [1..n -> PartialBucketVals] }

\* response.aggregations: undefined, or the bucket list of the tool's
\* top-level aggregation
PartialResponses ==
    {None} \cup {Some(b) : b \in UNION {PartialBuckets(n) : n \in 0..MaxPartialBuckets}}

PartialTools == {"get_visit_trends", "get_usage_leaderboard", "find_entities_by_metric"}

\* responseAggs?.<name>?.buckets || []
BucketsOrEmpty(aggs) == IF IsSome(aggs) THEN Val(aggs) ELSE <<>>

\* (bucket.<agg> as any)?.value || 0
ValueOrZero(bucket, agg) ==
    LET v == GetMetricValueFromBucket(bucket, agg)
    IN  IF IsSome(v) THEN Val(v) ELSE 0

\* GetVisitTrendsTool.run, groupBy none: one data point per bucket
VisitTrendsFold(buckets) ==
    CallReturned([i \in 1..Len(buckets) |->
                    [count |-> buckets[i].doc_count,
                     unique_accounts |-> ValueOrZero(buckets[i], "unique_accounts")]])

\* GetUsageLeaderboardTool.run: bucket.<agg>.value without a guard is a
\* TypeError when the sub-aggregation is missing; execute's catch wraps it
LeaderboardFold(buckets) ==
    IF \E i \in 1..Len(buckets) :
           ~({"unique_accounts", "avg_patient_rating"} \subseteq DOMAIN buckets[i].vals)
    THEN CallThrew(ExecuteCatch([kind |-> "Error", body |-> NoBody]))
    ELSE CallReturned([i \in 1..Len(buckets) |->
                         [entity |-> buckets[i].key,
                          total_visits |-> buckets[i].doc_count,
                          unique_accounts |-> buckets[i].vals["unique_accounts"],
                          avg_patient_rating |-> buckets[i].vals["avg_patient_rating"]]])

\* FindEntitiesByMetricTool.run with the filter visit_count >= 1: a bucket
\* whose value is missing or null is left out
FindEntitiesFold(buckets) ==
    LET Keep(b) == /\ IsSome(GetMetricValueFromBucket(b, "visit_count"))
                   /\ Val(GetMetricValueFromBucket(b, "visit_count")) >= 1
        passing == SelectSeq(buckets, Keep)
    IN  CallReturned([i \in 1..Len(passing) |->
                        [entity |-> passing[i].key,
                         visit_count |-> ValueOrZero(passing[i], "visit_count")]])

PartialFold(name, aggs) ==
    IF name = "get_visit_trends" THEN VisitTrendsFold(BucketsOrEmpty(aggs))
    ELSE IF name = "get_usage_leaderboard" THEN LeaderboardFold(BucketsOrEmpty(aggs))
    ELSE FindEntitiesFold(BucketsOrEmpty(aggs))

PartialInit ==
    /\ callee \in PartialTools
    /\ callArgs \in [aggregations : PartialResponses]
    /\ callResult = CallPending
    /\ ExecIdleInit /\ FeIdleInit /\ PbIdleInit /\ TcIdleInit

\* the search has resolved; run folds the response and returns
PartialReturn ==
    /\ callee \in PartialTools /\ callResult = CallPending
    /\ \E result \in {PartialFold(callee, callArgs.aggregations)} :
          /\ result.status = "returned"
          /\ callResult' = result
    /\ UNCHANGED <<callee, callArgs, execVars, feVars, pbVars, tcVars>>

\* the search has resolved; the fold throws and execute rethrows
PartialThrow ==
    /\ callee \in PartialTools /\ callResult = CallPending
    /\ \E result \in {PartialFold(callee, callArgs.aggregations)} :
          /\ result.status = "threw"
          /\ callResult' = result
    /\ UNCHANGED <<callee, callArgs, execVars, feVars, pbVars, tcVars>>

PartialNext == PartialReturn \/ PartialThrow

SpecPartial == PartialInit /\ [][PartialNext]_vars

\* C23: whatever is missing from the aggregations of a successful search,
\* the invocation returns a result and does not end in an error.
C23_PartialResponsesAreResults ==
    (callee \in PartialTools /\ callResult # CallPending) => callResult.status = "returned"

\* ---------------------------------------------------------------------
\* Several invocations of BaseTool.execute in flight on one tool object
\* ---------------------------------------------------------------------

MaxInvocations == 2

Invocations == 1..MaxInvocations

\* argument objects of the requests: two that pass the schema, one that fails
RequestArgs == {"args-a", "args-b", "malformed"}

\* how the awaited client.search of one invocation settles
SearchSettlements ==
    {[ok |-> TRUE, data |-> d, error |-> [kind |-> "none", body |-> NoBody]] :
        d \in {"hits-1", "hits-2"}}
    \cup {[ok |-> FALSE, data |-> "none", error |-> e] :
             e \in {[kind |-> "Error", body |-> NoBody],
                    [kind |-> "BodyObject",
                     body |-> [etype |-> "circuit_breaking_exception",
                               reason |-> [str |-> TRUE, marks |-> {}]]]}}

NoSettlement == [ok |-> FALSE, data |-> "none", error |-> [kind |-> "none", body |-> NoBody]]

\* the locals of one invocation: where it stands, the parsed arguments, the
\* client handle it took from the manager, the settled search, its outcome
InvocationStart ==
    [pc |-> "start", validatedArgs |-> "none", client |-> "none",
     response |-> NoSettlement, outcome |-> NoOutcome, overlapped |-> FALSE]

\* the value execute ends with, from run's parameter and the settled search
RunOutcome(validatedArgs, response) ==
    IF response.ok
    THEN [class |-> "returned", errorType |-> validatedArgs, advice |-> response.data = "hits-1"]
    ELSE ExecuteCatch(response.error)

\* execute run alone with these arguments and this settlement
AloneOutcome(args, response) ==
    IF args = "malformed" THEN ExecuteCatch([kind |-> "ZodError", body |-> NoBody])
    ELSE RunOutcome(args, response)

\* const validatedArgs = this.schema.parse(args) kept in a field of the tool
\* object: every invocation still awaiting sees the latest value
KeepParsedArgsOnTool(inv, i, parsed) ==
    [j \in DOMAIN inv |->
        IF j = i \/ inv[j].pc = "await"
        THEN [inv[j] EXCEPT !.validatedArgs = parsed]
        ELSE inv[j]]

\* const validatedArgs = this.schema.parse(args): a local of invocation i
KeepParsedArgs(inv, i, parsed) ==
    [inv EXCEPT ![i].validatedArgs = parsed]

ConcurrentInit ==
    /\ callee = "concurrent execute"
    /\ callArgs \in [manager : {[client |-> "client"]},
                     args : [Invocations -> RequestArgs]]
    /\ callResult = [status |-> "serving", inv |-> [i \in Invocations |-> InvocationStart]]
    /\ ExecIdleInit /\ FeIdleInit /\ PbIdleInit /\ TcIdleInit

\* execute of invocation i up to its first suspension: parse, then run up to
\* the awaited search; a ZodError ends it in the catch block
InvocationBegin(i) ==
    /\ callee = "concurrent execute"
    /\ callResult.inv[i].pc = "start"
    /\ IF callArgs.args[i] = "malformed"
       THEN callResult' =
              [callResult EXCEPT
                 !.inv[i].pc = "done",
                 !.inv[i].outcome = ExecuteCatch([kind |-> "ZodError", body |-> NoBody])]
       ELSE \E kept \in {KeepParsedArgs(callResult.inv, i, callArgs.args[i])} :
              callResult' =
                [callResult EXCEPT
                   !.inv = [kept EXCEPT
                              ![i].pc = "await",
                              ![i].client = callArgs.manager.client,
                              ![i].overlapped =
                                  \E j \in Invocations \ {i} : kept[j].pc = "await"]]
    /\ UNCHANGED <<callee, callArgs, execVars, feVars, pbVars, tcVars>>

\* the search of invocation i settles and execute runs to its end
InvocationSettle(i) ==
    /\ callee = "concurrent execute"
    /\ callResult.inv[i].pc = "await"
    /\ \E response \in SearchSettlements :
          callResult' =
            [callResult EXCEPT
               !.inv[i].pc = "done",
               !.inv[i].response = response,
               !.inv[i].outcome = RunOutcome(callResult.inv[i].validatedArgs, response)]
    /\ UNCHANGED <<callee, callArgs, execVars, feVars, pbVars, tcVars>>

ConcurrentNext == \E i \in Invocations : InvocationBegin(i) \/ InvocationSettle(i)

SpecConcurrent == ConcurrentInit /\ [][ConcurrentNext]_vars

\* C24: under every interleaving, an invocation that has ended has the outcome
\* it has when run alone with its arguments and its search settlement, and it
\* used the manager's client.
C24_InvocationsDoNotInterfere ==
    callee = "concurrent execute" =>
        \A i \in Invocations :
            callResult.inv[i].pc = "done" =>
                /\ callResult.inv[i].outcome =
                       AloneOutcome(callArgs.args[i], callResult.inv[i].response)
                /\ callArgs.args[i] # "malformed" => callResult.inv[i].client = "client"

\* two invocations with different arguments overlapped, and both have ended
C24_Witness ==
    /\ callee = "concurrent execute"
    /\ callArgs.args[1] = "args-a" /\ callArgs.args[2] = "args-b"
    /\ callResult.inv[2].overlapped
    /\ callResult.inv[1].pc = "done" /\ callResult.inv[2].pc = "done"
    /\ callResult.inv[1].outcome.class = "returned"
    /\ callResult.inv[2].outcome.class = "ElasticsearchError"

\* ---------------------------------------------------------------------
\* A malformed startDate / endDate in the tools that take a period
\* ---------------------------------------------------------------------

\* the tools of the server whose arguments hold startDate and endDate
DatedTools == ServerTools \ {"get_index_fields"}

\* what a tool does with the two strings before its search: BaseTool tools
\* call resolveTimeRange, three tools with an execute of their own call
\* capTimePeriod, the others put the strings into the range clause as given
DateStyle(name, catch) ==
    IF catch = "base" THEN "resolveTimeRange"
    ELSE IF name \in {"top_change", "get_platform_breakdown", "get_rating_distribution"}
    THEN "capTimePeriod"
    ELSE "passThrough"

\* the strings given as startDate or endDate
CallerDates ==
    {NowStr, Ago(7, "d"), AgoRounded(1, "M", "M"),
     IsoStr(MakeDay(2024, 3, 1) * TicksPerDay),
     TextStr, Ago(1, "h"),
     DateStr("math", "none", 0, "none", "h", FALSE, 0),
     DateStr("math", "-", 1, "d", "none", TRUE, 0)}

\* "now", an expression of the date-math grammar, or a parseable timestamp
WellFormedDate(e) == InGrammar(e) \/ e.kind = "iso"

\* the rejection of a search whose range clause the cluster cannot parse
DateParseRejection ==
    [kind |-> "BodyObject",
     body |-> [etype |-> "parse_exception", reason |-> [str |-> TRUE, marks |-> {}]]]

DatedCallInit ==
    /\ callee \in DatedTools
    /\ \E style \in CatchStyles(callee) :
          callArgs \in [catch : {style},
                        startDate : {None} \cup {Some(e) : e \in CallerDates},
                        endDate : {None, Some(NowStr), Some(TextStr), Some(Ago(1, "h"))},
                        now : {MakeDay(2024, 7, 15) * TicksPerDay + 1},
                        searchError : {None, Some(DateParseRejection)}]
    /\ callResult = [status |-> "pending", error |-> NoOutcome, searchCalls |-> 0]
    /\ ExecIdleInit /\ FeIdleInit /\ PbIdleInit /\ TcIdleInit

\* resolveTimeRange: resolveDate(start) or resolveDate(end) throws
ResolveTimeRangeThrows(args) ==
    \/ ~IsSome(ResolveDate(OrDefault(args.startDate, Ago(30, "d")), args.now))
    \/ ~IsSome(ResolveDate(OrDefault(args.endDate, NowStr), args.now))

\* the invocation ends before any search: resolveTimeRange throws an Error,
\* which the catch block of execute receives
DatedCallRefuse ==
    /\ callee \in DatedTools /\ callResult.status = "pending"
    /\ DateStyle(callee, callArgs.catch) = "resolveTimeRange"
    /\ ResolveTimeRangeThrows(callArgs)
    /\ callResult' = [status |-> "threw",
                      error |-> CatchOf(callArgs.catch, [kind |-> "Error", body |-> NoBody]),
                      searchCalls |-> 0]
    /\ UNCHANGED <<callee, callArgs, execVars, feVars, pbVars, tcVars>>

\* the search is issued with the period of the arguments and settles
DatedCallSearch ==
    /\ callee \in DatedTools /\ callResult.status = "pending"
    /\ \/ DateStyle(callee, callArgs.catch) # "resolveTimeRange"
       \/ ~ResolveTimeRangeThrows(callArgs)
    /\ callResult' =
         IF IsSome(callArgs.searchError)
         THEN [status |-> "threw", error |-> CatchOf(callArgs.catch, Val(callArgs.searchError)),
               searchCalls |-> 1]
         ELSE [status |-> "returned", error |-> NoOutcome, searchCalls |-> 1]
    /\ UNCHANGED <<callee, callArgs, execVars, feVars, pbVars, tcVars>>

DatedCallNext == DatedCallRefuse \/ DatedCallSearch

SpecDatedCall == DatedCallInit /\ [][DatedCallNext]_vars

\* the invocation has a startDate or an endDate that is not well formed
MalformedDateGiven ==
    \/ IsSome(callArgs.startDate) /\ ~WellFormedDate(Val(callArgs.startDate))
    \/ IsSome(callArgs.endDate) /\ ~WellFormedDate(Val(callArgs.endDate))

\* C25: an invocation of a tool taking startDate / endDate in which one of
\* the two is malformed ends in a ValidationError and issues no search.
C25_MalformedDateIsValidationFailure ==
    (callee \in DatedTools /\ callResult.status # "pending" /\ MalformedDateGiven) =>
        /\ callResult.status = "threw"
        /\ callResult.error.class = "ValidationError"
        /\ callResult.searchCalls = 0

\* ---------------------------------------------------------------------
\* top_change: the query, over the entities of a data set
\* ---------------------------------------------------------------------

MaxEntities == 3     \* most entities of a data set

KeyOrder == <<"acme", "bolt", "core", "dune", "echo">>

EntityKeys == {KeyOrder[i] : i \in DOMAIN KeyOrder}

\* the order of two keys as strings
KeyBefore(j, k) ==
    \E a, b \in DOMAIN KeyOrder : KeyOrder[a] = j /\ KeyOrder[b] = k /\ a < b

\* the first n keys in alphabetical order
FirstKeys(n) ==
    {k \in EntityKeys : Cardinality({j \in EntityKeys : KeyBefore(j, k)}) < n}

\* the visits of one entity in the current and in the previous period; an
\* entity of the data set has at least one visit in the two periods
EntityCounts == {c \in [current : {0, 1, 3}, previous : {0, 1, 3}] : c.current + c.previous > 0}

\* data sets: the visits that match the filters, per entity
DataSets ==
    UNION { [keys -> EntityCounts] : keys \in {FirstKeys(n) : n \in 0..MaxEntities} }

TopNValues == {1, 2}

\* the elements of S in the order given by the strict total order Before
SortedSeq(S, Before(_, _)) ==
    [i \in 1..Cardinality(S) |->
        CHOOSE x \in S : Cardinality({y \in S : Before(y, x)}) = i - 1]

\* the first n elements of a sequence
Take(seq, n) == SubSeq(seq, 1, Min(n, Len(seq)))

\* terms: { field, size }: one bucket per entity, the most frequent first
\* (equal counts by key), cut to size; the sub-aggregations of each bucket
\* are the two period filters and the bucket_script current - previous
TermsBuckets(data, size) ==
    LET docCount(k) == data[k].current + data[k].previous
        before(j, k) == docCount(j) > docCount(k) \/ (docCount(j) = docCount(k) /\ KeyBefore(j, k))
        keys == Take(SortedSeq(DOMAIN data, before), size)
    IN  [i \in 1..Len(keys) |->
            [key |-> keys[i], current_period |-> data[keys[i]].current,
             previous_period |-> data[keys[i]].previous,
             visit_delta |-> data[keys[i]].current - data[keys[i]].previous]]

\* bucket_sort: { sort: [{ visit_delta: { order } }], size }: the buckets of
\* the terms aggregation by visit_delta, equal values in the terms order
BucketSort(buckets, order, size) ==
    LET before(i, j) ==
            \/ (IF order = "desc" THEN buckets[i].visit_delta > buckets[j].visit_delta
                ELSE buckets[i].visit_delta < buckets[j].visit_delta)
            \/ (buckets[i].visit_delta = buckets[j].visit_delta /\ i < j)
        idx == Take(SortedSeq(DOMAIN buckets, before), size)
    IN  [i \in 1..Len(idx) |-> buckets[idx[i]]]

\* the by_<groupBy> buckets of the search response
TopChangeResponse(data, topN, direction) ==
    BucketSort(TermsBuckets(data, topN * 2),
               IF direction = "increase" THEN "desc" ELSE "asc", topN)

TopChangeQueryInit ==
    /\ callee = "TopChangeTool.run"
    /\ callArgs \in [topN : TopNValues, direction : {"increase", "decrease"}, data : DataSets]
    /\ callResult = CallPending
    /\ ExecIdleInit /\ FeIdleInit /\ PbIdleInit /\ TcIdleInit

\* run: the search, then the loop over the returned buckets
TopChangeQueryReturn ==
    /\ callee = "TopChangeTool.run" /\ callResult = CallPending
    /\ callResult' =
         CallReturned(TcItems(TopChangeResponse(callArgs.data, callArgs.topN, callArgs.direction)))
    /\ UNCHANGED <<callee, callArgs, execVars, feVars, pbVars, tcVars>>

TopChangeQueryNext == TopChangeQueryReturn

SpecTopChangeQuery == TopChangeQueryInit /\ [][TopChangeQueryNext]_vars

\* current_count - previous_count of an entity of the data set
ChangeOf(data, k) == data[k].current - data[k].previous

\* C26: the returned items are topN entities of the whole data set by change:
\* there are min(topN, number of entities) of them, each with the change of
\* its entity, and no entity left out has a larger (increase) or smaller
\* (decrease) change than a returned one.
C26_RanksOverAllEntities ==
    (callee = "TopChangeTool.run" /\ callResult.status = "returned") =>
        LET items == callResult.value
            data == callArgs.data
            returned == {items[i].item : i \in 1..Len(items)}
        IN  /\ Len(items) = Min(callArgs.topN, Cardinality(DOMAIN data))
            /\ Cardinality(returned) = Len(items)
            /\ \A i \in 1..Len(items) :
                  /\ items[i].item \in DOMAIN data
                  /\ items[i].change = ChangeOf(data, items[i].item)
            /\ \A k \in returned : \A j \in DOMAIN data \ returned :
                  IF callArgs.direction = "increase"
                  THEN ChangeOf(data, k) >= ChangeOf(data, j)
                  ELSE ChangeOf(data, k) <= ChangeOf(data, j)

\* ---------------------------------------------------------------------
\* get_index_fields over a mapping response with several indices
\* ---------------------------------------------------------------------

MaxIndices == 2     \* most indices matched by the index pattern

\* mappings.properties of one index of the response
GifIndexMappings ==
    PropertyLists(GifLeaves({Some("keyword"), Some("date")})
                  \cup {[type |-> None,
                         properties |-> Some(<<[name |-> <<"a">>, type |-> Some("keyword"),
                                               properties |-> None]>>)]})

\* Object.entries(response): one mapping per index that the pattern matches
GifMappingResponses == UNION { [1..n -> GifIndexMappings] : n \in 0..MaxIndices }

\* the loop over Object.entries(response): extractFields pushes the fields of
\* every index onto the same list
RECURSIVE GifExtractAll(_, _)
GifExtractAll(response, includeNested) ==
    IF response = <<>> THEN <<>>
    ELSE ExtractFields(Head(response), <<>>, includeNested, None, None)
         \o GifExtractAll(Tail(response), includeNested)

GifResponseInit ==
    /\ callee = "GetIndexFieldsTool.execute response"
    /\ callArgs \in [includeNested : BOOLEAN, response : GifMappingResponses]
    /\ callResult = CallPending
    /\ ExecIdleInit /\ FeIdleInit /\ PbIdleInit /\ TcIdleInit

\* execute after getMapping resolved
GifResponseReturn ==
    /\ callee = "GetIndexFieldsTool.execute response" /\ callResult = CallPending
    /\ \E fields \in {SortByPath(GifExtractAll(callArgs.response, callArgs.includeNested))} :
          callResult' = CallReturned([fields |-> fields, total |-> Len(fields)])
    /\ UNCHANGED <<callee, callArgs, execVars, feVars, pbVars, tcVars>>

GifResponseNext == GifResponseReturn

SpecIndexFieldsResponse == GifResponseInit /\ [][GifResponseNext]_vars

\* C30: no two entries of the returned fields have the same path, and total
\* is the number of distinct paths returned.
C30_EachFieldOnce ==
    (callee = "GetIndexFieldsTool.execute response" /\ callResult.status = "returned") =>
        LET fields == callResult.value.fields
        IN  /\ \A i, j \in 1..Len(fields) : i # j => fields[i].path # fields[j].path
            /\ callResult.value.total = Cardinality({fields[i].path : i \in 1..Len(fields)})

\* ---------------------------------------------------------------------
\* capTimePeriod over periods given as date math or ISO strings
\* ---------------------------------------------------------------------

CapStartDates == {Ago(7, "d"), Ago(30, "d"), Ago(90, "d"), Ago(2, "M"),
                  IsoStr(MakeDay(2024, 1, 10) * TicksPerDay)}

CapEndDates == {NowStr, Ago(1, "d"), Ago(50, "d"), IsoStr(MakeDay(2024, 3, 20) * TicksPerDay)}

CapMaxDays == {30, 60}

\* the instant a date string stands for when the clock reads t
InstantOf(e, t) == Val(ResolveDate(e, t))

\* the callers' periods: the start is before the end
CapArgsDomain ==
    {a \in [startDate : CapStartDates, endDate : CapEndDates, maxDays : CapMaxDays,
            now : TcNowValues, lapseStart : Lapses, lapseEnd : Lapses] :
        InstantOf(a.startDate, a.now) < InstantOf(a.endDate, a.now)}

CapInit ==
    /\ callee = "capTimePeriod"
    /\ callArgs \in CapArgsDomain
    /\ callResult = CallPending
    /\ ExecIdleInit /\ FeIdleInit /\ PbIdleInit /\ TcIdleInit

CapReturn ==
    /\ callee = "capTimePeriod" /\ callResult = CallPending
    /\ callResult' =
         CallReturned(CapTimePeriod(callArgs.startDate, callArgs.endDate, callArgs.maxDays,
                                    callArgs.now, callArgs.lapseStart, callArgs.lapseEnd))
    /\ UNCHANGED <<callee, callArgs, execVars, feVars, pbVars, tcVars>>

CapNext == CapReturn

SpecCapTimePeriod == CapInit /\ [][CapNext]_vars

\* the length of the period from start to end, in ticks, at clock reading t
SpanTicks(startDate, endDate, t) == InstantOf(endDate, t) - InstantOf(startDate, t)

\* C27: the returned pair spans at most maxDays days with its start before
\* its end; an input period of at most maxDays days comes back unchanged with
\* wasAdjusted = false; wasAdjusted is true only when the returned start
\* differs from the input start.
C27_CapTimePeriodCaps ==
    (callee = "capTimePeriod" /\ callResult.status = "returned") =>
        LET out == callResult.value
            t == callArgs.now
        IN  /\ SpanTicks(out.startDate, out.endDate, t) <= callArgs.maxDays * TicksPerDay
            /\ InstantOf(out.startDate, t) < InstantOf(out.endDate, t)
            /\ SpanTicks(callArgs.startDate, callArgs.endDate, t)
                   <= callArgs.maxDays * TicksPerDay
               => out = [startDate |-> callArgs.startDate, endDate |-> callArgs.endDate,
                         wasAdjusted |-> FALSE]
            /\ out.wasAdjusted => out.startDate # callArgs.startDate

\* ---------------------------------------------------------------------
\* setupGracefulShutdown: the handlers of the four shutdown triggers
\* ---------------------------------------------------------------------

MaxTriggers == 3     \* most triggers delivered to the process

ShutdownTriggers == {"SIGINT", "SIGTERM", "uncaughtException", "unhandledRejection"}

\* a closure that goes on whatever the flag says
ShutdownProceedsAlways(isShuttingDown) == TRUE

\* if (this.isShuttingDown) return: whether the closure goes on
ShutdownProceeds(isShuttingDown) == ~isShuttingDown

\* the server after its constructor: no trigger received, the flag false
ServerRunning ==
    [status |-> "running", isShuttingDown |-> FALSE, received |-> <<>>, returnedEarly |-> 0,
     managerShutdownCalls |-> 0, closeCalls |-> 0, isConnected |-> FALSE, exitCode |-> "none"]

ShutdownInit ==
    /\ callee = "setupGracefulShutdown"
    /\ callArgs \in [hasClient : BOOLEAN, close : {"resolves", "rejects"}]
    /\ callResult = [ServerRunning EXCEPT !.isConnected = callArgs.hasClient]
    /\ ExecIdleInit /\ FeIdleInit /\ PbIdleInit /\ TcIdleInit

\* a trigger arrives and its handler runs up to the first await: the closure
\* returns when the flag is set; otherwise it sets the flag and calls
\* elasticsearch.shutdown(), which calls client.close() when there is a client
ShutdownTrigger(signal) ==
    /\ callee = "setupGracefulShutdown"
    /\ callResult.status # "exited"
    /\ Len(callResult.received) < MaxTriggers
    /\ IF ShutdownProceeds(callResult.isShuttingDown)
       THEN callResult' =
              [callResult EXCEPT
                 !.status = "awaiting",
                 !.isShuttingDown = TRUE,
                 !.received = Append(@, signal),
                 !.managerShutdownCalls = @ + 1,
                 !.closeCalls = IF callArgs.hasClient THEN @ + 1 ELSE @]
       ELSE callResult' =
              [callResult EXCEPT !.received = Append(@, signal), !.returnedEarly = @ + 1]
    /\ UNCHANGED <<callee, callArgs, execVars, feVars, pbVars, tcVars>>

\* the awaited elasticsearch.shutdown() settles (a rejected close is caught
\* inside it) and the closure runs to process.exit(0)
ShutdownSettle ==
    /\ callee = "setupGracefulShutdown"
    /\ callResult.status = "awaiting"
    /\ callResult' = [callResult EXCEPT !.status = "exited", !.isConnected = FALSE,
                                        !.exitCode = "0"]
    /\ UNCHANGED <<callee, callArgs, execVars, feVars, pbVars, tcVars>>

ShutdownNext == (\E signal \in ShutdownTriggers : ShutdownTrigger(signal)) \/ ShutdownSettle

\* the event loop runs the continuation of a settled await
SpecShutdown == ShutdownInit /\ [][ShutdownNext]_vars /\ WF_vars(ShutdownSettle)

\* C28: whatever triggers arrive and whenever, ElasticsearchManager.shutdown
\* is invoked at most once (and so is client.close), the process exits only
\* after that invocation, and once it is invoked the process exits.
C28_ShutdownOnceThenExit ==
    /\ [](callee = "setupGracefulShutdown" =>
            /\ callResult.managerShutdownCalls <= 1
            /\ callResult.closeCalls <= 1
            /\ callResult.status = "exited" => callResult.managerShutdownCalls = 1)
    /\ (callee = "setupGracefulShutdown" /\ callResult.managerShutdownCalls >= 1)
          ~> (callResult.status = "exited")

\* a second trigger arrived while the first shutdown was awaiting, and the
\* process has exited after one shutdown and one close
C28_Witness ==
    /\ callee = "setupGracefulShutdown"
    /\ callArgs.hasClient
    /\ callResult.status = "exited"
    /\ Len(callResult.received) >= 2
    /\ callResult.returnedEarly >= 1
    /\ callResult.managerShutdownCalls = 1
    /\ callResult.closeCalls = 1

\* ---------------------------------------------------------------------
\* ElasticsearchManager: the client field and connectionInfo over its calls
\* ---------------------------------------------------------------------

MaxManagerCalls == 3     \* most calls made on the manager

\* the manager after its constructor: client = null, isConnected: false.
\* `client` is "null", "open" (a Client) or "closed" (a Client whose close()
\* has been called); `era` notes whether initialize has succeeded and whether
\* shutdown has run since
ManagerCreated ==
    [status |-> "created", client |-> "null", isConnected |-> FALSE,
     error |-> Absent, era |-> "fresh", calls |-> <<>>, last |-> CallPending]

\* getClient()
GetClient(m) ==
    IF m.client = "null" THEN CallThrew("Elasticsearch client not initialized")
    ELSE CallReturned(m.client)

\* getConnectionInfo()
GetConnectionInfo(m) == [isConnected |-> m.isConnected, error |-> m.error]

\* initialize(): new Client(clientOptions) returns or throws
Initialize(m, constructs) ==
    IF constructs
    THEN [m EXCEPT !.client = "open", !.isConnected = TRUE, !.error = Absent,
                   !.era = "initialized", !.last = CallReturned("void")]
    ELSE [m EXCEPT !.last = CallThrew("Client constructor")]

\* healthCheck()
HealthCheck(m) ==
    IF m.client = "null"
    THEN [m EXCEPT !.isConnected = FALSE, !.error = "Client not initialized",
                   !.last = CallReturned(FALSE)]
    ELSE [m EXCEPT !.last = CallReturned(m.isConnected)]

\* reconnect(): close the client if there is one, then initialize
Reconnect(m, closes, constructs) ==
    IF m.client # "null" /\ ~closes
    THEN [m EXCEPT !.client = "closed", !.last = CallThrew("close")]
    ELSE Initialize([m EXCEPT !.client = IF @ = "null" THEN @ ELSE "closed"], constructs)

\* shutdown(): close the client if there is one (a rejection is caught), then
\* connectionInfo.isConnected = false; the client field keeps its value
Shutdown(m) ==
    [m EXCEPT !.client = IF @ = "null" THEN @ ELSE "closed",
              !.isConnected = FALSE, !.era = "shutdown", !.last = CallReturned("void")]

ManagerInit ==
    /\ callee = "ElasticsearchManager"
    /\ callArgs = [config |-> "node"]
    /\ callResult = ManagerCreated
    /\ ExecIdleInit /\ FeIdleInit /\ PbIdleInit /\ TcIdleInit

\* one more call on the manager, noted in `calls`
ManagerStep(name, after) ==
    /\ callee = "ElasticsearchManager"
    /\ Len(callResult.calls) < MaxManagerCalls
    /\ callResult' = [after EXCEPT !.status = "called", !.calls = Append(callResult.calls, name)]
    /\ UNCHANGED <<callee, callArgs, execVars, feVars, pbVars, tcVars>>

ManagerInitialize ==
    \E constructs \in BOOLEAN :
        ManagerStep(IF constructs THEN "initialize" ELSE "initialize throws",
                    Initialize(callResult, constructs))

ManagerHealthCheck == ManagerStep("healthCheck", HealthCheck(callResult))

ManagerReconnect ==
    \E closes, constructs \in BOOLEAN :
        ManagerStep(IF closes /\ constructs THEN "reconnect" ELSE "reconnect throws",
                    Reconnect(callResult, closes, constructs))

ManagerShutdown == ManagerStep("shutdown", Shutdown(callResult))

ManagerGetClient ==
    ManagerStep("getClient", [callResult EXCEPT !.last = GetClient(callResult)])

ManagerNext ==
    \/ ManagerInitialize
    \/ ManagerHealthCheck
    \/ ManagerReconnect
    \/ ManagerShutdown
    \/ ManagerGetClient

SpecManager == ManagerInit /\ [][ManagerNext]_vars

\* C29: getClient throws "not initialized" in every state before the first
\* successful initialize and in every state after shutdown until initialize
\* succeeds again, and isConnected is true exactly in the states in which
\* getClient returns a client.
C29_ClientOnlyWhileUsable ==
    callee = "ElasticsearchManager" =>
        /\ callResult.era \in {"fresh", "shutdown"}
           => GetClient(callResult) = CallThrew("Elasticsearch client not initialized")
        /\ GetConnectionInfo(callResult).isConnected
           <=> GetClient(callResult).status = "returned"

====
